---------------------------- MODULE Spec2Model ----------------------------
(***************************************************************************)
(* A model of the segmented-transcription pipeline of mnemosyne:           *)
(*   - TranscriptCleaner (src/src/audio/cleaner.py), the Consolidator;     *)
(*   - AudioTranscriber.transcribe_file (src/src/audio/transcriber.py);    *)
(*   - AudioProcessor.process_single_file / process_directory              *)
(*     (src/src/audio/processor.py), the batch orchestrator;               *)
(*   - main and process_directory of scripts/process_audio.py;             *)
(*   - format_timestamp, and the sidecar written by AudioDiarizer          *)
(*     (src/src/audio/diarizer.py) and read back by AudioTranscriber;      *)
(*   - the legacy consolidation script src/clean.py;                       *)
(*   - two calls of process_single_file running at the same time.          *)
(*                                                                         *)
(* Text is modelled at the character level: a string is a sequence of      *)
(* one-character strings, a file is a sequence of lines (the "\n" that     *)
(* readlines() keeps and strip() removes is the line separator).  The      *)
(* alphabet's only whitespace character is the space.                      *)
(***************************************************************************)
EXTENDS Integers, Sequences, FiniteSets, TLC

VARIABLES
    \* ---- Consolidator (SpecClean) ----
    raw_lines,        \* the lines of the input transcript file
    cleaned_lines,    \* the lines clean_transcript_file wrote for raw_lines
    recleaned_lines,  \* the lines it wrote when run on cleaned_lines
    legacy_lines,     \* the lines clean.py's clean_transcription wrote for raw_lines
    cpc,              \* "input" | "cleaned" | "recleaned" | "legacy"
    \* ---- transcribe_file inside process_single_file (SpecTranscribe) ----
    sidecar_kind,     \* "list": the sidecar holds a JSON list; "invalid": not JSON
    diarization_data, \* the elements of the sidecar's list
    max_segments,     \* <<>> for None, <<n>> for the cap n
    output_file,      \* the lines written to the raw transcript's file object
    disk_file,        \* the lines the raw transcript file holds on disk
    segment_log,      \* per loop iteration: what the engine did, whether a line was written
    tpc,              \* position in transcribe_file and its caller
    transcript_cleaned, \* the lines the cleaning stage wrote for output_file
    file_result,      \* "none" | "success" | "failed": process_single_file's result
    \* ---- process_single_file and process_directory (Spec) ----
    mode,             \* "directory": process_directory; "single": one process_single_file call
    listing,          \* what input_dir.glob yields, in its order (or the one input path)
    supported_files,  \* process_directory's list of files to process
    file_idx,         \* index of the file the loop is at
    pc,               \* position in process_directory / process_single_file
    clean_temp_files, \* the argument of that name
    temp_audio_file,  \* process_single_file's local: NoPath for None
    audio_file,       \* process_single_file's local
    current_result,   \* the dictionary process_single_file is about to return
    fs,               \* the file system: path -> content
    results,          \* process_directory's results list
    successful_count, \* process_directory's counters
    failed_count,
    batch_results,    \* the dictionary process_directory returns
    stage_log,        \* per processed file, the stages run and how each ended
    init_outcome,     \* how AudioProcessor(...) ended in main: "pending" before
    exit_status,      \* <<>> while main runs, <<n>> after sys.exit(n)
    console,          \* the lines main and the script's process_directory printed
    failed_files,     \* the script's list of the names of the failed files
    interrupted_at,   \* <<>>, or <<i>>: a KeyboardInterrupt arrived at file i
    fs_before,        \* the file system when process_single_file was entered
    unlink_failed,    \* the unlink of the finally block raised in this call
    writer,           \* path -> index of the call that last wrote it, 0 for none
    model_loads,      \* how often each model has been loaded in this process
    engine_calls,     \* per call of process_single_file, the calls of the pipeline
    \* ---- format_timestamp (SpecTimestamp) ----
    ts_seconds,       \* the argument seconds, in milliseconds
    ts_string,        \* the string format_timestamp returned for it
    fpc,              \* "input" | "formatted"
    \* ---- the sidecar written and read back (SpecSidecar) ----
    tracks,           \* what diarization.itertracks(yield_label=True) yields, in its order
    sidecar_text,     \* the characters of the sidecar file
    loaded_data,      \* what load_diarization_from_file returned for it
    spc,              \* "diarized" | "saved" | "loaded"
    \* ---- two calls of process_single_file at once (SpecConcurrent) ----
    run_file,         \* per call, its input file
    run_clean,        \* per call, its clean_temp_files
    runs,             \* per call, its position, its locals and what its stages read
    shared_temp       \* the content of path_config.temp_audio_file

cleanVars == <<raw_lines, cleaned_lines, recleaned_lines, legacy_lines, cpc>>
transVars == <<sidecar_kind, diarization_data, max_segments, output_file, disk_file,
               segment_log, tpc, transcript_cleaned, file_result>>
mainVars == <<init_outcome, exit_status, console, failed_files, interrupted_at>>
ghostVars == <<fs_before, unlink_failed, writer>>
engineVars == <<model_loads, engine_calls>>
batchVars == <<mode, listing, supported_files, file_idx, pc, clean_temp_files,
               temp_audio_file, audio_file, current_result, fs, results,
               successful_count, failed_count, batch_results, stage_log,
               mainVars, ghostVars, engineVars>>
stampVars == <<ts_seconds, ts_string, fpc>>
sidecarVars == <<tracks, sidecar_text, loaded_data, spc>>
concVars == <<run_file, run_clean, runs, shared_temp>>
pureVars == <<stampVars, sidecarVars, concVars>>
vars == <<cleanVars, transVars, batchVars, pureVars>>

----------------------------------------------------------------------------
(* Bounds *)

MaxLines == 4
MaxSegments == 3
MaxFiles == 3

----------------------------------------------------------------------------
(* Strings *)

SP == " "
BAR == "|"
Whitespace == {SP}
DELIM == <<SP, BAR, SP>>

\* The value Python's None has where the code holds "no speaker yet".
None == <<"None">>

RECURSIVE lstrip(_)
lstrip(s) == IF s # <<>> /\ Head(s) \in Whitespace THEN lstrip(Tail(s)) ELSE s

RECURSIVE rstrip(_)
rstrip(s) ==
    IF s # <<>> /\ s[Len(s)] \in Whitespace
    THEN rstrip(SubSeq(s, 1, Len(s) - 1))
    ELSE s

\* str.strip()
strip(s) == rstrip(lstrip(s))

startswith(s, p) == Len(s) >= Len(p) /\ SubSeq(s, 1, Len(p)) = p

\* str.split(sep): leftmost, non-overlapping occurrences of sep; cur is the
\* part being read.
RECURSIVE SplitFrom(_, _, _)
SplitFrom(rest, sep, cur) ==
    IF rest = <<>> THEN <<cur>>
    ELSE IF startswith(rest, sep)
         THEN <<cur>> \o SplitFrom(SubSeq(rest, Len(sep) + 1, Len(rest)), sep, <<>>)
         ELSE SplitFrom(Tail(rest), sep, Append(cur, Head(rest)))

split(s, sep) == SplitFrom(s, sep, <<>>)

\* sep.join(parts)
RECURSIVE join(_, _)
join(sep, parts) ==
    IF parts = <<>> THEN <<>>
    ELSE IF Len(parts) = 1 THEN parts[1]
    ELSE parts[1] \o sep \o join(sep, Tail(parts))

----------------------------------------------------------------------------
(* TranscriptCleaner *)

\* The result of parse_transcript_line for a line it rejects.
ParseNone == [valid |-> FALSE, speaker |-> <<>>, timestamp |-> <<>>, text |-> <<>>]

\* A mutant that takes the third part alone for the text.
ParseKeepsThirdPartOnly(line0) ==
    LET line == strip(line0)
        parts == split(line, DELIM)
    IN  IF line = <<>> THEN ParseNone
        ELSE IF Len(parts) < 3 THEN ParseNone
        ELSE [valid     |-> TRUE,
              speaker   |-> strip(parts[1]),
              timestamp |-> strip(parts[2]),
              text      |-> strip(parts[3])]

\* parse_transcript_line, cleaner.py 34-52
parse_transcript_line(line0) ==
    LET line == strip(line0)
        parts == split(line, DELIM)
    IN  IF line = <<>> THEN ParseNone
        ELSE IF Len(parts) < 3 THEN ParseNone
        ELSE [valid     |-> TRUE,
              speaker   |-> strip(parts[1]),
              timestamp |-> strip(parts[2]),
              text      |-> strip(join(DELIM, SubSeq(parts, 3, Len(parts))))]

\* f"{speaker} | {timestamp} | {text}\n", cleaner.py 107 and 122
ConsolidatedLine(speaker, timestamp, text) ==
    speaker \o DELIM \o timestamp \o DELIM \o text

\* The loop's locals before the first line, cleaner.py 85-88
CleanerStart ==
    [processed_lines  |-> <<>>,
     previous_speaker |-> None,
     current_text     |-> <<>>,
     start_timestamp  |-> <<>>]

\* The flush of the open run, cleaner.py 106-109
FlushRun(st) ==
    IF st.previous_speaker # None
    THEN Append(st.processed_lines,
                ConsolidatedLine(st.previous_speaker, st.start_timestamp, st.current_text))
    ELSE st.processed_lines

\* Mutants of the loop body: one that never merges, one that keeps the
\* timestamp of the run's last line, one that lets a rejected line end the run.
ProcessLineNeverMerges(st, line) ==
    LET parsed == parse_transcript_line(line)
    IN  IF ~parsed.valid THEN st
        ELSE [processed_lines  |-> FlushRun(st),
              previous_speaker |-> parsed.speaker,
              start_timestamp  |-> parsed.timestamp,
              current_text     |-> parsed.text]

ProcessLineLastTimestamp(st, line) ==
    LET parsed == parse_transcript_line(line)
    IN  IF ~parsed.valid THEN st
        ELSE IF parsed.speaker = st.previous_speaker
        THEN [st EXCEPT !.current_text = @ \o <<SP>> \o parsed.text,
                        !.start_timestamp = parsed.timestamp]
        ELSE [processed_lines  |-> FlushRun(st),
              previous_speaker |-> parsed.speaker,
              start_timestamp  |-> parsed.timestamp,
              current_text     |-> parsed.text]

ProcessLineRejectEndsRun(st, line) ==
    LET parsed == parse_transcript_line(line)
    IN  IF ~parsed.valid
        THEN [processed_lines  |-> FlushRun(st),
              previous_speaker |-> None,
              start_timestamp  |-> <<>>,
              current_text     |-> <<>>]
        ELSE IF parsed.speaker = st.previous_speaker
        THEN [st EXCEPT !.current_text = @ \o <<SP>> \o parsed.text]
        ELSE [processed_lines  |-> FlushRun(st),
              previous_speaker |-> parsed.speaker,
              start_timestamp  |-> parsed.timestamp,
              current_text     |-> parsed.text]

\* A mutant that keeps only the first text of a run.
ProcessLineKeepsFirstText(st, line) ==
    LET parsed == parse_transcript_line(line)
    IN  IF ~parsed.valid THEN st
        ELSE IF parsed.speaker = st.previous_speaker
        THEN st
        ELSE [processed_lines  |-> FlushRun(st),
              previous_speaker |-> parsed.speaker,
              start_timestamp  |-> parsed.timestamp,
              current_text     |-> parsed.text]

\* One iteration of the loop, cleaner.py 90-118
ProcessLine(st, line) ==
    LET parsed == parse_transcript_line(line)
    IN  IF ~parsed.valid THEN st
        ELSE IF parsed.speaker = st.previous_speaker
        THEN [st EXCEPT !.current_text = @ \o <<SP>> \o parsed.text]
        ELSE [processed_lines  |-> FlushRun(st),
              previous_speaker |-> parsed.speaker,
              start_timestamp  |-> parsed.timestamp,
              current_text     |-> parsed.text]

RECURSIVE CleanerLoop(_, _)
CleanerLoop(st, lines) ==
    IF lines = <<>> THEN st
    ELSE CleanerLoop(ProcessLine(st, Head(lines)), Tail(lines))

\* A mutant that forgets the run still open when the input ends.
FinalFlushForgotten(st) == st.processed_lines

\* The flush after the loop, cleaner.py 120-124
FinalFlush(st) == FlushRun(st)

\* clean_transcript_file, cleaner.py 78-129: the lines written for the lines read
clean_transcript_file(lines) == FinalFlush(CleanerLoop(CleanerStart, lines))

\* The legacy script clean.py.  Its fields are the parts as split, unstripped:
\* clean.py 14-21.
LegacyParse(line0) ==
    LET line == strip(line0)
        parts == split(line, DELIM)
    IN  IF line = <<>> THEN ParseNone
        ELSE IF Len(parts) < 3 THEN ParseNone
        ELSE [valid     |-> TRUE,
              speaker   |-> parts[1],
              timestamp |-> parts[2],
              text      |-> join(DELIM, SubSeq(parts, 3, Len(parts)))]

\* One iteration of its loop, clean.py 12-34
LegacyProcessLine(st, line) ==
    LET parsed == LegacyParse(line)
    IN  IF ~parsed.valid THEN st
        ELSE IF parsed.speaker = st.previous_speaker
        THEN [st EXCEPT !.current_text = @ \o <<SP>> \o parsed.text]
        ELSE [processed_lines  |-> FlushRun(st),
              previous_speaker |-> parsed.speaker,
              start_timestamp  |-> parsed.timestamp,
              current_text     |-> parsed.text]

RECURSIVE LegacyLoop(_, _)
LegacyLoop(st, lines) ==
    IF lines = <<>> THEN st
    ELSE LegacyLoop(LegacyProcessLine(st, Head(lines)), Tail(lines))

\* clean_transcription, clean.py 1-43: the lines written for the lines read
clean_transcription(lines) == FlushRun(LegacyLoop(CleanerStart, lines))

----------------------------------------------------------------------------
(* Inputs of the Consolidator *)

\* What AudioTranscriber.transcribe_file writes for a segment (without "\n").
RawLine(speaker, timestamp, text) == speaker \o DELIM \o timestamp \o DELIM \o text

RawLinePool ==
    { RawLine(<<"A">>, <<"0">>, <<"x">>),
      RawLine(<<"A">>, <<"1">>, <<"y">>),
      RawLine(<<"B">>, <<"0">>, <<"x">>),
      RawLine(<<"B">>, <<"1">>, <<"x", SP, BAR, SP, "y">>),   \* " | " inside the text
      <<SP, "B", SP>> \o DELIM \o <<SP, "1", SP>> \o DELIM \o <<SP, "y", SP>>,  \* padded fields
      RawLine(<<"C">>, <<"1">>, <<"y">>),
      RawLine(<<"A">>, <<"1">>, <<>>),                        \* empty text
      <<"A">> \o DELIM \o <<"x">>,                            \* two parts only
      <<>> }                                                  \* blank line

LineLists == UNION { [1..n -> RawLinePool] : n \in 0..MaxLines }

----------------------------------------------------------------------------
(* SpecClean: the Consolidator applied to a file, then to its own output *)

----------------------------------------------------------------------------
(* Files, paths and contents of the orchestrator *)

\* Input files by stem and suffix.  a.mp3 and a.mp4 share a stem; c.txt has
\* an unsupported suffix; d.mp3 does not exist.
FileA3 == [stem |-> "a", suffix |-> ".mp3"]
FileA4 == [stem |-> "a", suffix |-> ".mp4"]
FileB4 == [stem |-> "b", suffix |-> ".mp4"]
FileC  == [stem |-> "c", suffix |-> ".txt"]
FileD3 == [stem |-> "d", suffix |-> ".mp3"]
ExistingFiles == {FileA3, FileA4, FileB4, FileC}
InputFiles == ExistingFiles \cup {FileD3}

\* get_supported_audio_formats, settings.py 294-296
SupportedFormats == {".mp4", ".wav", ".m4a", ".mp3", ".mov", ".ogg"}

\* A mutant that accepts every suffix.
AcceptsEverySuffix(f) == TRUE

\* is_supported_audio_format, settings.py 298-300
is_supported_audio_format(f) == f.suffix \in SupportedFormats

\* A mutant that sends .mp3 through extract_audio as well.
VideoFormatsWithMp3 == {".mp4", ".mov", ".avi", ".mkv", ".mp3"}

\* The suffixes that go through extract_audio, processor.py 155
VideoFormats == {".mp4", ".mov", ".avi", ".mkv"}

NoPath == <<>>
InputPath(f) == <<"input_dir", f.stem, f.suffix>>
\* path_config.temp_audio_file, settings.py 106-107
TempAudioPath == <<"temp", "temp_audio", ".wav">>
\* processor.py 167, 171, 177
DiarizationPath(f)   == <<"output_dir", f.stem, ".json">>
TranscriptionPath(f) == <<"output_dir", f.stem, ".txt">>
CleanedPath(f)       == <<"output_dir", f.stem, "_cleaned.txt">>

\* output_dir, processor.py 150-151
OutputDir == <<"output_dir">>

Paths ==
    {InputPath(f) : f \in InputFiles} \cup {TempAudioPath, OutputDir}
    \cup {DiarizationPath(f) : f \in InputFiles}
    \cup {TranscriptionPath(f) : f \in InputFiles}
    \cup {CleanedPath(f) : f \in InputFiles}

\* Contents: each stage's output is a function of what it read.
Absent == [kind |-> "absent"]
Directory == [kind |-> "directory"]
Media(f) == [kind |-> "media", stem |-> f.stem, suffix |-> f.suffix]
Waveform(media) == [kind |-> "wav", of |-> media]
PartOf(content) == [kind |-> "partial", of |-> content]
Sidecar(audio) == [kind |-> "sidecar", of |-> audio]
RawTranscript(audio, sidecar) == [kind |-> "raw", audio |-> audio, sidecar |-> sidecar]
CleanedTranscript(raw) == [kind |-> "cleaned", of |-> raw]

Exists(filesystem, path) == filesystem[path] # Absent

InitialFs ==
    [p \in Paths |->
        IF \E f \in ExistingFiles : p = InputPath(f)
        THEN Media(CHOOSE f \in ExistingFiles : p = InputPath(f))
        ELSE Absent]

NoResult == [input_file |-> NoPath, success |-> FALSE, error |-> "None"]

\* The orchestrator's variables while a component is studied alone.
BatchIdle ==
    /\ mode = "idle"
    /\ listing = <<>>
    /\ supported_files = <<>>
    /\ file_idx = 0
    /\ pc = "idle"
    /\ clean_temp_files = TRUE
    /\ temp_audio_file = NoPath
    /\ audio_file = NoPath
    /\ current_result = NoResult
    /\ fs = InitialFs
    /\ results = <<>>
    /\ successful_count = 0
    /\ failed_count = 0
    /\ batch_results = NoResult
    /\ stage_log = <<>>
    /\ init_outcome = "ready"
    /\ exit_status = <<>>
    /\ console = <<>>
    /\ failed_files = <<>>
    /\ interrupted_at = <<>>
    /\ fs_before = InitialFs
    /\ unlink_failed = FALSE
    /\ writer = [p \in Paths |-> 0]
    /\ model_loads = [diarizer |-> 0, transcriber |-> 0]
    /\ engine_calls = <<>>

\* The variables of the concurrent calls while another component is studied.
ConcurrentIdle ==
    /\ run_file = <<>>
    /\ run_clean = <<>>
    /\ runs = <<>>
    /\ shared_temp = Absent

\* The variables of the two conversions and of the concurrent calls while
\* another component is studied.
PureIdle ==
    /\ ConcurrentIdle
    /\ ts_seconds = 0
    /\ ts_string = <<>>
    /\ fpc = "idle"
    /\ tracks = <<>>
    /\ sidecar_text = <<>>
    /\ loaded_data = <<>>
    /\ spc = "idle"

\* The variables of transcribe_file while the Consolidator is studied alone.
TranscribeIdle ==
    /\ sidecar_kind = "list"
    /\ diarization_data = <<>>
    /\ max_segments = <<>>
    /\ output_file = <<>>
    /\ disk_file = <<>>
    /\ segment_log = <<>>
    /\ tpc = "idle"
    /\ transcript_cleaned = <<>>
    /\ file_result = "none"

InitClean ==
    /\ TranscribeIdle
    /\ BatchIdle
    /\ PureIdle
    /\ raw_lines \in LineLists
    /\ cleaned_lines = <<>>
    /\ recleaned_lines = <<>>
    /\ legacy_lines = <<>>
    /\ cpc = "input"

CleanFile ==
    /\ cpc = "input"
    /\ cleaned_lines' = clean_transcript_file(raw_lines)
    /\ cpc' = "cleaned"
    /\ UNCHANGED <<raw_lines, recleaned_lines, legacy_lines, transVars, batchVars, pureVars>>

CleanAgain ==
    /\ cpc = "cleaned"
    /\ recleaned_lines' = clean_transcript_file(cleaned_lines)
    /\ cpc' = "recleaned"
    /\ UNCHANGED <<raw_lines, cleaned_lines, legacy_lines, transVars, batchVars, pureVars>>

\* The legacy script run on the same transcript.
CleanLegacy ==
    /\ cpc = "recleaned"
    /\ legacy_lines' = clean_transcription(raw_lines)
    /\ cpc' = "legacy"
    /\ UNCHANGED <<raw_lines, cleaned_lines, recleaned_lines, transVars, batchVars, pureVars>>

NextClean == CleanFile \/ CleanAgain \/ CleanLegacy

SpecClean == InitClean /\ [][NextClean]_vars

----------------------------------------------------------------------------
(* AudioTranscriber *)

SENTINEL == <<"[", "T", "R", "A", "N", "S", "C", "R", "I", "P", "T", "I", "O", "N",
              "_", "E", "R", "R", "O", "R", "]">>

DigitChars == <<"0", "1", "2", "3", "4", "5", "6", "7", "8", "9">>

\* str(n) for n >= 0
RECURSIVE Decimal(_)
Decimal(n) ==
    IF n < 10 THEN <<DigitChars[n + 1]>>
    ELSE Decimal(n \div 10) \o <<DigitChars[(n % 10) + 1]>>

\* f"{n:02d}"
Pad2(n) == IF n < 10 THEN <<"0">> \o Decimal(n) ELSE Decimal(n)

\* A mutant that starts the hours again at midnight.
FormatTimestampDayRollover(ms) ==
    LET hours   == (ms \div 3600000) % 24
        minutes == (ms % 3600000) \div 60000
        secs    == (ms % 60000) \div 1000
    IN  Pad2(hours) \o <<":">> \o Pad2(minutes) \o <<":">> \o Pad2(secs)

\* format_timestamp, transcriber.py 89-92.  Times are counted in
\* milliseconds: seconds // 3600 is the floor of ms / 3600000, and so on.
format_timestamp(ms) ==
    LET hours   == ms \div 3600000
        minutes == (ms % 3600000) \div 60000
        secs    == (ms % 60000) \div 1000
    IN  Pad2(hours) \o <<":">> \o Pad2(minutes) \o <<":">> \o Pad2(secs)

\* What the engine does on one segment: it raises, or it returns a text.
EngineRaises == [raised |-> TRUE, text |-> <<>>]
EngineReturns(text) == [raised |-> FALSE, text |-> text]
EngineOutcomes ==
    { EngineRaises,
      EngineReturns(<<SP, "x", SP>>),
      EngineReturns(<<>>) }                 \* silence

\* A mutant that returns an empty text where the engine raised.
SegmentErrorGivesNoText(outcome) ==
    IF outcome.raised THEN <<>> ELSE strip(outcome.text)

\* transcribe_audio_segment, transcriber.py 133-142
transcribe_audio_segment(outcome) ==
    IF outcome.raised THEN SENTINEL ELSE strip(outcome.text)

\* The keys the loop body reads, transcriber.py 192-194
HasSegmentKeys(segment) == {"start", "end", "speaker"} \subseteq DOMAIN segment

\* One iteration of the loop of transcribe_file, transcriber.py 190-218:
\* the lines of the file afterwards and the iteration's log entry.  The
\* KeyError of a missing key is caught at 215-218 before the engine is
\* called, and the segment gets no line.
TranscribeSegment(lines, segment, outcome) ==
    IF ~HasSegmentKeys(segment)
    THEN [lines |-> lines,
          log   |-> [called |-> FALSE, outcome |-> EngineRaises, wrote |-> FALSE]]
    ELSE LET transcription == transcribe_audio_segment(outcome)
             start_time == format_timestamp(segment.start)
         IN  [lines |-> Append(lines, RawLine(segment.speaker, start_time, transcription)),
              log   |-> [called |-> TRUE, outcome |-> outcome, wrote |-> TRUE]]

\* total_segments, transcriber.py 177-179
Min(a, b) == IF a < b THEN a ELSE b

\* A mutant that lets one segment more than the cap through.
TotalSegmentsOneMore ==
    IF max_segments # <<>>
    THEN Min(max_segments[1] + 1, Len(diarization_data))
    ELSE Len(diarization_data)

total_segments ==
    IF max_segments # <<>>
    THEN Min(max_segments[1], Len(diarization_data))
    ELSE Len(diarization_data)

\* The elements a sidecar's list can hold: segments with the three keys,
\* and an element without the "speaker" key.
SegmentPool ==
    { [start |-> 0,       end |-> 1500,    speaker |-> <<"A">>],
      [start |-> 61900,   end |-> 63000,   speaker |-> <<"B">>],
      [start |-> 3600000, end |-> 3601000, speaker |-> <<"A">>],
      [start |-> 2000,    end |-> 2500] }

SegmentLists == UNION { [1..n -> SegmentPool] : n \in 0..MaxSegments }

----------------------------------------------------------------------------
(* SpecTranscribe: steps 3 and 4 of process_single_file on one sidecar *)

ConsolidatorIdle ==
    /\ raw_lines = <<>>
    /\ cleaned_lines = <<>>
    /\ recleaned_lines = <<>>
    /\ legacy_lines = <<>>
    /\ cpc = "idle"

InitTranscribe ==
    /\ ConsolidatorIdle
    /\ BatchIdle
    /\ PureIdle
    /\ sidecar_kind \in {"list", "invalid"}
    /\ diarization_data \in (IF sidecar_kind = "list" THEN SegmentLists ELSE {<<>>})
    /\ max_segments \in {<<>>, <<0>>, <<2>>}
    /\ output_file = <<>>
    /\ disk_file = <<>>
    /\ segment_log = <<>>
    /\ tpc = "start"
    /\ transcript_cleaned = <<>>
    /\ file_result = "none"

\* transcriber.py 166-188: load the sidecar and the audio, open the output.
\* load_diarization_from_file raises on invalid JSON (72-74); librosa.load
\* and open() can raise; all end in the RuntimeError of 223-225.
OpenTranscription ==
    /\ tpc = "start"
    /\ \E audio_loads \in BOOLEAN :
         IF sidecar_kind = "list" /\ audio_loads
         THEN /\ tpc' = "loop"
              /\ output_file' = <<>>
              /\ disk_file' = <<>>
         ELSE /\ tpc' = "raised"
              /\ UNCHANGED <<output_file, disk_file>>
    /\ UNCHANGED <<sidecar_kind, diarization_data, max_segments, segment_log,
                   transcript_cleaned, file_result, cleanVars, batchVars, pureVars>>

\* open(output_file_path, "w", encoding="utf-8"), transcriber.py 187: a text
\* file with the default buffering.  write() (210) puts the line in the
\* buffer, which reaches the disk when it fills; nothing calls flush().
\* What the disk can hold after a write, given what it held and what has
\* been written so far.
BufferedWrite(disk, written) == {disk, written}

\* transcriber.py 190-218: the next segment of diarization_data[:total_segments]
NextSegment ==
    /\ tpc = "loop"
    /\ Len(segment_log) < total_segments
    /\ \E outcome \in EngineOutcomes :
         LET step == TranscribeSegment(output_file,
                                       diarization_data[Len(segment_log) + 1], outcome)
         IN  /\ output_file' = step.lines
             /\ segment_log' = Append(segment_log, step.log)
             /\ disk_file' \in (IF step.log.wrote
                               THEN BufferedWrite(disk_file, step.lines)
                               ELSE {disk_file})
    /\ UNCHANGED <<sidecar_kind, diarization_data, max_segments, tpc,
                   transcript_cleaned, file_result, cleanVars, batchVars, pureVars>>

\* transcriber.py 220-221: the loop is over, the with block closes the file
\* and transcribe_file returns
ReturnTranscription ==
    /\ tpc = "loop"
    /\ Len(segment_log) = total_segments
    /\ tpc' = "returned"
    /\ disk_file' = output_file
    /\ UNCHANGED <<sidecar_kind, diarization_data, max_segments, output_file,
                   segment_log, transcript_cleaned, file_result, cleanVars, batchVars, pureVars>>

\* A KeyboardInterrupt inside the loop is not an Exception (215, 223): it
\* leaves the with block of 187, which closes the file, and transcribe_file.
InterruptTranscription ==
    /\ tpc = "loop"
    /\ tpc' = "interrupted"
    /\ disk_file' = output_file
    /\ UNCHANGED <<sidecar_kind, diarization_data, max_segments, output_file,
                   segment_log, transcript_cleaned, file_result, cleanVars, batchVars, pureVars>>

\* processor.py 176-204: step 4 runs on the raw transcript and the result
\* reports success
CleaningStage ==
    /\ tpc = "returned"
    /\ transcript_cleaned' = clean_transcript_file(output_file)
    /\ file_result' = "success"
    /\ tpc' = "done"
    /\ UNCHANGED <<sidecar_kind, diarization_data, max_segments, output_file, disk_file,
                   segment_log, cleanVars, batchVars, pureVars>>

\* processor.py 206-216: the RuntimeError of transcribe_file ends the file
TranscriptionFailed ==
    /\ tpc = "raised"
    /\ file_result' = "failed"
    /\ tpc' = "done"
    /\ UNCHANGED <<sidecar_kind, diarization_data, max_segments, output_file, disk_file,
                   segment_log, transcript_cleaned, cleanVars, batchVars, pureVars>>

NextTranscribe ==
    \/ OpenTranscription
    \/ NextSegment
    \/ ReturnTranscription
    \/ InterruptTranscription
    \/ CleaningStage
    \/ TranscriptionFailed

SpecTranscribe == InitTranscribe /\ [][NextTranscribe]_vars

----------------------------------------------------------------------------
(* SpecTimestamp: format_timestamp applied to a number of whole seconds *)

MaxSmallSeconds == 61

\* The arguments: every second up to MaxSmallSeconds, and the seconds around
\* the changes of the minute, hour, ten-hour, day and hundred-hour fields.
SecondsPool ==
    (0..MaxSmallSeconds)
    \cup {119, 120, 599, 600, 3599, 3600, 3661, 35999, 36000, 86399, 86400,
          90061, 359999, 360000, 363599}

InitTimestamp ==
    /\ ConsolidatorIdle
    /\ TranscribeIdle
    /\ BatchIdle
    /\ ConcurrentIdle
    /\ ts_seconds \in {s * 1000 : s \in SecondsPool}
    /\ ts_string = <<>>
    /\ fpc = "input"
    /\ tracks = <<>>
    /\ sidecar_text = <<>>
    /\ loaded_data = <<>>
    /\ spc = "idle"

FormatTimestamp ==
    /\ fpc = "input"
    /\ ts_string' = format_timestamp(ts_seconds)
    /\ fpc' = "formatted"
    /\ UNCHANGED <<ts_seconds, sidecarVars, concVars, cleanVars, transVars, batchVars>>

NextTimestamp == FormatTimestamp

SpecTimestamp == InitTimestamp /\ [][NextTimestamp]_vars

----------------------------------------------------------------------------
(* The sidecar: json.dump in save_diarization_to_file, json.load in         *)
(* load_diarization_from_file                                               *)

NL == "\n"
QUOTE == "\""
BACKSLASH == "\\"

KeyStart == <<"s", "t", "a", "r", "t">>
KeyEnd == <<"e", "n", "d">>
KeySpeaker == <<"s", "p", "e", "a", "k", "e", "r">>

Indent(n) == [i \in 1..n |-> SP]

\* The fraction digits of a float's repr: the shortest that read back to the
\* same value, and at least one.  r is the number of milliseconds.
Fraction(r) ==
    IF r = 0 THEN <<"0">>
    ELSE IF r % 100 = 0 THEN <<DigitChars[(r \div 100) + 1]>>
    ELSE IF r % 10 = 0
         THEN <<DigitChars[(r \div 100) + 1], DigitChars[((r \div 10) % 10) + 1]>>
    ELSE <<DigitChars[(r \div 100) + 1], DigitChars[((r \div 10) % 10) + 1],
           DigitChars[(r % 10) + 1]>>

\* json's encoding of a float, e.g. 61.9
JsonNumber(ms) == Decimal(ms \div 1000) \o <<".">> \o Fraction(ms % 1000)

\* json's encoding of a str: the quote and the backslash are escaped
RECURSIVE JsonEscape(_)
JsonEscape(str) ==
    IF str = <<>> THEN <<>>
    ELSE (IF Head(str) \in {QUOTE, BACKSLASH} THEN <<BACKSLASH, Head(str)>> ELSE <<Head(str)>>)
         \o JsonEscape(Tail(str))

JsonString(str) == <<QUOTE>> \o JsonEscape(str) \o <<QUOTE>>

\* One dictionary of the list, as json.dump(..., indent=4) writes it
JsonObject(d) ==
    <<"{", NL>> \o Indent(8) \o JsonString(KeyStart) \o <<":", SP>> \o JsonNumber(d.start)
    \o <<",", NL>> \o Indent(8) \o JsonString(KeyEnd) \o <<":", SP>> \o JsonNumber(d.end)
    \o <<",", NL>> \o Indent(8) \o JsonString(KeySpeaker) \o <<":", SP>> \o JsonString(d.speaker)
    \o <<NL>> \o Indent(4) \o <<"}">>

RECURSIVE JsonItems(_)
JsonItems(list) ==
    IF Len(list) = 1 THEN <<NL>> \o Indent(4) \o JsonObject(list[1])
    ELSE <<NL>> \o Indent(4) \o JsonObject(Head(list)) \o <<",">> \o JsonItems(Tail(list))

\* json.dump(diarization_data, file, indent=4), diarizer.py 125
json_dump(list) ==
    IF list = <<>> THEN <<"[", "]">>
    ELSE <<"[">> \o JsonItems(list) \o <<NL, "]">>

\* A mutant of the list comprehension that orders the segments by start.
RECURSIVE SortedByStart(_)
SortedByStart(ts) ==
    IF ts = <<>> THEN <<>>
    ELSE LET i == CHOOSE i \in 1..Len(ts) :
                      \A j \in 1..Len(ts) : ts[i].segment.start <= ts[j].segment.start
             rest == [k \in 1..(Len(ts) - 1) |-> IF k < i THEN ts[k] ELSE ts[k + 1]]
         IN  <<[start |-> ts[i].segment.start, end |-> ts[i].segment.end,
                speaker |-> ts[i].speaker]>> \o SortedByStart(rest)

\* diarizer.py 111-118: one dictionary per track, in the order of itertracks
DiarizationData(ts) ==
    [i \in 1..Len(ts) |->
        [start |-> ts[i].segment.start, end |-> ts[i].segment.end, speaker |-> ts[i].speaker]]

\* save_diarization_to_file, diarizer.py 109-125: the text of the file
save_diarization_to_file(ts) == json_dump(DiarizationData(ts))

\* json.load: white space between tokens is skipped
IsWhitespace(c) == c \in {SP, NL}
RECURSIVE SkipWhitespace(_, _)
SkipWhitespace(text, i) ==
    IF i <= Len(text) /\ IsWhitespace(text[i]) THEN SkipWhitespace(text, i + 1) ELSE i

\* A string, read from the character after its opening quote
RECURSIVE ScanString(_, _, _)
ScanString(text, i, acc) ==
    IF text[i] = QUOTE THEN [val |-> acc, next |-> i + 1]
    ELSE IF text[i] = BACKSLASH THEN ScanString(text, i + 2, Append(acc, text[i + 1]))
    ELSE ScanString(text, i + 1, Append(acc, text[i]))

IsDigit(c) == \E d \in 1..10 : DigitChars[d] = c
DigitValue(c) == (CHOOSE d \in 1..10 : DigitChars[d] = c) - 1

RECURSIVE ScanDigits(_, _, _, _)
ScanDigits(text, i, acc, count) ==
    IF i <= Len(text) /\ IsDigit(text[i])
    THEN ScanDigits(text, i + 1, acc * 10 + DigitValue(text[i]), count + 1)
    ELSE [val |-> acc, next |-> i, count |-> count]

RECURSIVE Pow10(_)
Pow10(n) == IF n <= 0 THEN 1 ELSE 10 * Pow10(n - 1)

\* A number with a fraction, read back as milliseconds
ScanNumber(text, i) ==
    LET whole == ScanDigits(text, i, 0, 0)
        frac  == ScanDigits(text, whole.next + 1, 0, 0)
    IN  [val  |-> whole.val * 1000 + frac.val * Pow10(3 - frac.count),
         next |-> frac.next]

ScanValue(text, i) ==
    IF text[i] = QUOTE THEN ScanString(text, i + 1, <<>>) ELSE ScanNumber(text, i)

\* The members of an object, read from the opening quote of a key
RECURSIVE ScanMembers(_, _, _)
ScanMembers(text, i, acc) ==
    LET key   == ScanString(text, i + 1, <<>>)
        colon == SkipWhitespace(text, key.next)
        value == ScanValue(text, SkipWhitespace(text, colon + 1))
        after == SkipWhitespace(text, value.next)
        pairs == Append(acc, <<key.val, value.val>>)
    IN  IF text[after] = ","
        THEN ScanMembers(text, SkipWhitespace(text, after + 1), pairs)
        ELSE [val |-> pairs, next |-> after + 1]

\* The dict of a sequence of key-value pairs: a later pair replaces an earlier
Dict(pairs) ==
    [k \in {pairs[j][1] : j \in 1..Len(pairs)} |->
        LET last == CHOOSE j \in 1..Len(pairs) :
                        /\ pairs[j][1] = k
                        /\ \A h \in (j + 1)..Len(pairs) : pairs[h][1] # k
        IN  pairs[last][2]]

\* An object, read from its opening brace
ScanObject(text, i) ==
    LET first == SkipWhitespace(text, i + 1)
    IN  IF text[first] = "}" THEN [val |-> Dict(<<>>), next |-> first + 1]
        ELSE LET members == ScanMembers(text, first, <<>>)
             IN  [val |-> Dict(members.val), next |-> members.next]

RECURSIVE ScanElements(_, _, _)
ScanElements(text, i, acc) ==
    LET element == ScanObject(text, i)
        after   == SkipWhitespace(text, element.next)
        items   == Append(acc, element.val)
    IN  IF text[after] = "," THEN ScanElements(text, SkipWhitespace(text, after + 1), items)
        ELSE items

\* json.load(file), transcriber.py 65, on a list of objects
json_load(text) ==
    LET first == SkipWhitespace(text, 2)
    IN  IF text[first] = "]" THEN <<>> ELSE ScanElements(text, first, <<>>)

\* load_diarization_from_file, transcriber.py 62-68
load_diarization_from_file(text) == json_load(text)

\* What the engine yields: (segment, track, label) triples; the second and
\* third overlap, the labels of the last two hold characters json escapes.
TrackPool ==
    { [segment |-> [start |-> 61900, end |-> 63000], track |-> "A", speaker |-> <<"S", "0">>],
      [segment |-> [start |-> 0, end |-> 1500], track |-> "B", speaker |-> <<"S", "1">>],
      [segment |-> [start |-> 1005, end |-> 3600250], track |-> "C", speaker |-> <<"a", QUOTE, "b">>],
      [segment |-> [start |-> 7000, end |-> 7010], track |-> "D", speaker |-> <<BACKSLASH, "n">>] }

MaxTracks == 3

TrackLists == UNION { [1..n -> TrackPool] : n \in 0..MaxTracks }

InitSidecar ==
    /\ ConsolidatorIdle
    /\ TranscribeIdle
    /\ BatchIdle
    /\ ConcurrentIdle
    /\ ts_seconds = 0
    /\ ts_string = <<>>
    /\ fpc = "idle"
    /\ tracks \in TrackLists
    /\ sidecar_text = <<>>
    /\ loaded_data = <<>>
    /\ spc = "diarized"

\* AudioDiarizer.process_file, diarizer.py 157: the sidecar is written
SaveDiarization ==
    /\ spc = "diarized"
    /\ sidecar_text' = save_diarization_to_file(tracks)
    /\ spc' = "saved"
    /\ UNCHANGED <<tracks, loaded_data, stampVars, concVars, cleanVars, transVars, batchVars>>

\* AudioTranscriber.transcribe_file, transcriber.py 171: the sidecar is read
LoadDiarization ==
    /\ spc = "saved"
    /\ loaded_data' = load_diarization_from_file(sidecar_text)
    /\ spc' = "loaded"
    /\ UNCHANGED <<tracks, sidecar_text, stampVars, concVars, cleanVars, transVars, batchVars>>

NextSidecar == SaveDiarization \/ LoadDiarization

SpecSidecar == InitSidecar /\ [][NextSidecar]_vars

----------------------------------------------------------------------------
(* SpecConcurrent: two calls of process_single_file, on two different input *)
(* files, running at the same time over one file system (two runs of the    *)
(* script, or two threads sharing an AudioProcessor).  Each call is the     *)
(* code of processor.py 131-225; the steps of the two interleave.           *)

Calls == {1, 2}
ConcurrentInputs == {FileA3, FileA4, FileB4}

\* The locals of a call before its first stage, processor.py 131-132;
\* diarized and transcribed are the audio its diarizer and its transcriber
\* were given to read.
RunStart ==
    [pc |-> "extract", temp_audio_file |-> NoPath, diarized |-> Absent,
     transcribed |-> Absent, success |-> FALSE]

InitConcurrent ==
    /\ ConsolidatorIdle
    /\ TranscribeIdle
    /\ BatchIdle
    /\ ts_seconds = 0
    /\ ts_string = <<>>
    /\ fpc = "idle"
    /\ tracks = <<>>
    /\ sidecar_text = <<>>
    /\ loaded_data = <<>>
    /\ spc = "idle"
    /\ run_file \in {q \in [Calls -> ConcurrentInputs] : q[1] # q[2]}
    /\ run_clean \in [Calls -> BOOLEAN]
    /\ runs = [c \in Calls |-> RunStart]
    /\ shared_temp = Absent

\* What is at the path the call's stages read: audio_file is the temporary
\* path after an extraction and the input path otherwise, processor.py 158-164.
AudioRead(c) ==
    IF runs[c].temp_audio_file # NoPath THEN shared_temp ELSE Media(run_file[c])

\* The exception of a stage: the call goes to its finally block, 206-218.
RunFails(c) == [runs EXCEPT ![c].pc = "finally"]

\* processor.py 155-164 and extract_audio 78-112: ffmpeg -y writes
\* path_config.temp_audio_file, whatever the input file; an audio format is
\* used as it is
ConcurrentExtract(c) ==
    /\ runs[c].pc = "extract"
    /\ IF run_file[c].suffix \in VideoFormats
       THEN \E ok \in BOOLEAN :
              IF ok
              THEN /\ shared_temp' = Waveform(Media(run_file[c]))
                   /\ runs' = [runs EXCEPT ![c].pc = "diarize",
                                           ![c].temp_audio_file = TempAudioPath]
              ELSE /\ runs' = RunFails(c)
                   /\ UNCHANGED shared_temp
       ELSE /\ runs' = [runs EXCEPT ![c].pc = "diarize"]
            /\ UNCHANGED shared_temp
    /\ UNCHANGED <<run_file, run_clean, stampVars, sidecarVars, cleanVars, transVars, batchVars>>

\* processor.py 166-168: the diarizer reads audio_file; it raises when the
\* file is not there (diarizer.py 65-72, 85-86) or for reasons of its own
ConcurrentDiarize(c) ==
    /\ runs[c].pc = "diarize"
    /\ \E ok \in (IF AudioRead(c) = Absent THEN {FALSE} ELSE BOOLEAN) :
         runs' = IF ok
                 THEN [runs EXCEPT ![c].pc = "transcribe", ![c].diarized = AudioRead(c)]
                 ELSE RunFails(c)
    /\ UNCHANGED <<run_file, run_clean, shared_temp, stampVars, sidecarVars,
                   cleanVars, transVars, batchVars>>

\* processor.py 170-178: the transcriber reads audio_file (transcriber.py
\* 174); the cleaning stage reads the raw transcript only
ConcurrentTranscribe(c) ==
    /\ runs[c].pc = "transcribe"
    /\ \E ok \in (IF AudioRead(c) = Absent THEN {FALSE} ELSE BOOLEAN) :
         runs' = IF ok
                 THEN [runs EXCEPT ![c].pc = "finally", ![c].transcribed = AudioRead(c),
                                   ![c].success = TRUE]
                 ELSE RunFails(c)
    /\ UNCHANGED <<run_file, run_clean, shared_temp, stampVars, sidecarVars,
                   cleanVars, transVars, batchVars>>

\* processor.py 218-225: the finally block unlinks temp_audio_file, then the
\* call returns
ConcurrentCleanup(c) ==
    /\ runs[c].pc = "finally"
    /\ runs' = [runs EXCEPT ![c].pc = "returned"]
    /\ IF run_clean[c] /\ runs[c].temp_audio_file # NoPath /\ shared_temp # Absent
       THEN \E unlinked \in BOOLEAN :
              shared_temp' = IF unlinked THEN Absent ELSE shared_temp
       ELSE UNCHANGED shared_temp
    /\ UNCHANGED <<run_file, run_clean, stampVars, sidecarVars, cleanVars, transVars, batchVars>>

NextConcurrent ==
    \E c \in Calls :
        \/ ConcurrentExtract(c)
        \/ ConcurrentDiarize(c)
        \/ ConcurrentTranscribe(c)
        \/ ConcurrentCleanup(c)

SpecConcurrent == InitConcurrent /\ [][NextConcurrent]_vars

----------------------------------------------------------------------------
(* AudioProcessor: process_single_file and process_directory; main and      *)
(* process_directory of scripts/process_audio.py                            *)

CurrentFile == supported_files[file_idx]

\* The stages process_single_file runs for a file when none fails.
StagesOf(f) ==
    IF f.suffix \in VideoFormats
    THEN <<"validation", "extraction", "diarization", "transcription", "cleaning">>
    ELSE <<"validation", "diarization", "transcription", "cleaning">>

\* The sequences of distinct elements of S with at most n elements.
Injective(q) == \A i, j \in 1..Len(q) : q[i] = q[j] => i = j
Listings(S, n) == {q \in UNION {[1..k -> S] : k \in 0..n} : Injective(q)}

\* sorted(files), scripts/process_audio.py 175: the paths in the order of
\* their names
NameOrder == <<FileA3, FileA4, FileB4, FileC, FileD3>>
InListing(q, f) == \E i \in 1..Len(q) : q[i] = f
sorted(q) == SelectSeq(NameOrder, LAMBDA f : InListing(q, f))

\* The test of get_supported_files, scripts/process_audio.py 171-173
HasSupportedSuffix(f) == \E ext \in SupportedFormats : f.suffix = ext

\* processor.py 208-216: the dictionary returned when a stage raised
FailedResult(f, message, temp) ==
    [input_file         |-> InputPath(f),
     success            |-> FALSE,
     error              |-> message,
     audio_file         |-> temp,
     diarization_file   |-> NoPath,
     transcription_file |-> NoPath,
     cleaned_file       |-> NoPath,
     stats_error        |-> FALSE]

\* processor.py 181-198: the dictionary returned when all stages passed
SuccessResult(f, audio, stats_failed) ==
    [input_file         |-> InputPath(f),
     success            |-> TRUE,
     error              |-> "None",
     audio_file         |-> audio,
     diarization_file   |-> DiarizationPath(f),
     transcription_file |-> TranscriptionPath(f),
     cleaned_file       |-> CleanedPath(f),
     stats_error        |-> stats_failed]

\* A stage ran for the current file and ended as said.
Logged(stage, ok) ==
    [stage_log EXCEPT ![Len(stage_log)] = Append(@, [stage |-> stage, ok |-> ok])]

\* A mutant in which a stage's exception is swallowed and the next stage runs.
StageFailureSwallowed(stage, message) ==
    /\ UNCHANGED current_result
    /\ stage_log' = Logged(stage, FALSE)
    /\ pc' = CASE stage = "extraction"    -> "diarize"
            [] stage = "diarization"   -> "transcribe"
            [] stage = "transcription" -> "clean"
            [] OTHER                   -> "collect"

\* A mutant in which a stage's exception leaves process_single_file and is
\* recorded by the handler of the loop, processor.py 290-297.
StageErrorEscapes(stage, message) ==
    /\ current_result' = [input_file |-> InputPath(CurrentFile),
                          success    |-> FALSE,
                          error      |-> message]
    /\ stage_log' = Logged(stage, FALSE)
    /\ pc' = "finally"

\* The exception of a stage reaches the handler at processor.py 206-216.
StageRaises(stage, message) ==
    /\ current_result' = FailedResult(CurrentFile, message, temp_audio_file)
    /\ stage_log' = Logged(stage, FALSE)
    /\ pc' = "finally"

\* A mutant in which a handler catches whatever is raised.
CatchesEverything(handler, raised) == TRUE

\* Whether the clause "except <handler>" catches an exception of class
\* raised: KeyboardInterrupt derives from BaseException, not from Exception.
Catches(handler, raised) ==
    \/ handler = raised
    \/ handler = "Exception" /\ raised \in {"RuntimeError", "ValueError", "FileNotFoundError"}

\* AudioProcessor.__init__, processor.py 55-56: AudioDiarizer() calls
\* Pipeline.from_pretrained (diarizer.py 40, 46), then AudioTranscriber()
\* calls whisper.load_model (transcriber.py 40, 46); the second is not
\* reached when the first raised.
LoadModels(loads, outcome) ==
    [diarizer    |-> loads.diarizer + 1,
     transcriber |-> loads.transcriber + (IF outcome = "diarizer_raised" THEN 0 ELSE 1)]

\* The number of pipeline calls made in call i of process_single_file.
CallsIn(calls, i) == IF i <= Len(calls) THEN calls[i] ELSE 0

\* A mutant that calls the pipeline a second time.
InvokeEngineTwice(calls, i) ==
    [k \in 1..(IF i > Len(calls) THEN i ELSE Len(calls)) |->
        CallsIn(calls, k) + (IF k = i THEN 2 ELSE 0)]

\* diarization = self.pipeline(str(file_path)), diarizer.py 89
InvokeEngine(calls, i) ==
    [k \in 1..(IF i > Len(calls) THEN i ELSE Len(calls)) |->
        CallsIn(calls, k) + (IF k = i THEN 1 ELSE 0)]

\* The lines main and the script's process_directory print that matter here.
InitFailedLine == <<"Failed to initialize processor">>
InterruptedLine == <<"Processing interrupted by user">>
NoFilesLine == <<"No supported audio files found">>
FailedFileLine(f) == <<"failed file", f.stem, f.suffix>>

Init ==
    /\ ConsolidatorIdle
    /\ TranscribeIdle
    /\ PureIdle
    /\ mode \in {"directory", "script", "single", "rerun"}
    /\ listing \in (IF mode \in {"directory", "script"}
                    THEN Listings(ExistingFiles, MaxFiles)
                    ELSE {<<f>> : f \in InputFiles})
    /\ supported_files = <<>>
    /\ file_idx = 0
    /\ pc = "start"
    /\ clean_temp_files \in BOOLEAN
    /\ temp_audio_file = NoPath
    /\ audio_file = NoPath
    /\ current_result = NoResult
    /\ fs = InitialFs
    /\ results = <<>>
    /\ successful_count = 0
    /\ failed_count = 0
    /\ batch_results = NoResult
    /\ stage_log = <<>>
    /\ init_outcome = (IF mode = "script" THEN "pending" ELSE "ready")
    /\ exit_status = <<>>
    /\ console = <<>>
    /\ failed_files = <<>>
    /\ interrupted_at = <<>>
    /\ fs_before = InitialFs
    /\ unlink_failed = FALSE
    /\ writer = [p \in Paths |-> 0]
    /\ model_loads = (IF mode = "script" THEN [diarizer |-> 0, transcriber |-> 0]
                      ELSE LoadModels([diarizer |-> 0, transcriber |-> 0], "ready"))
    /\ engine_calls = <<>>

\* main, scripts/process_audio.py 370-378: AudioProcessor(...) builds the
\* diarizer (diarizer.py 42-53) and the transcriber (transcriber.py 42-50).
\* An exception of either ends the run with status 1.  Pipeline.from_pretrained
\* reports a pipeline it could not download by returning None without
\* raising; diarizer.py 46 stores what it returns unchecked.
InitializeProcessor ==
    /\ pc = "start" /\ mode = "script"
    /\ \E outcome \in {"ready", "diarizer_raised", "transcriber_raised", "pipeline_none"} :
         /\ init_outcome' = outcome
         /\ model_loads' = LoadModels(model_loads, outcome)
         /\ IF outcome \in {"diarizer_raised", "transcriber_raised"}
            THEN /\ console' = Append(console, InitFailedLine)
                 /\ exit_status' = <<1>>
                 /\ pc' = "exited"
            ELSE /\ pc' = "enumerate"
                 /\ UNCHANGED <<console, exit_status>>
    /\ UNCHANGED <<mode, listing, supported_files, file_idx, clean_temp_files,
                   temp_audio_file, audio_file, current_result, fs, results,
                   successful_count, failed_count, batch_results, stage_log,
                   failed_files, interrupted_at, ghostVars, engine_calls,
                   cleanVars, transVars, pureVars>>

\* process_directory of the script, scripts/process_audio.py 252-282: the
\* supported files, sorted; with none the run ends with status 1
GetSupportedFiles ==
    /\ pc = "enumerate" /\ mode = "script"
    /\ supported_files' = sorted(SelectSeq(listing, HasSupportedSuffix))
    /\ file_idx' = 1
    /\ IF SelectSeq(listing, HasSupportedSuffix) = <<>>
       THEN /\ console' = Append(console, NoFilesLine)
            /\ exit_status' = <<1>>
            /\ pc' = "done"
       ELSE /\ pc' = "loop"
            /\ UNCHANGED <<console, exit_status>>
    /\ UNCHANGED <<mode, listing, clean_temp_files, temp_audio_file, audio_file,
                   current_result, fs, results, successful_count, failed_count,
                   batch_results, stage_log, init_outcome, failed_files,
                   interrupted_at, ghostVars, engineVars, cleanVars, transVars, pureVars>>

\* process_directory, processor.py 254-276: the supported files among the
\* listing, in the listing's order; the counters start at zero.
EnumerateFiles ==
    /\ pc = "start" /\ mode = "directory"
    /\ supported_files' = SelectSeq(listing, is_supported_audio_format)
    /\ file_idx' = 1
    /\ pc' = "loop"
    /\ UNCHANGED <<mode, listing, clean_temp_files, temp_audio_file, audio_file,
                   current_result, fs, results, successful_count, failed_count,
                   batch_results, stage_log, mainVars, ghostVars,
                   engineVars, cleanVars, transVars, pureVars>>

\* process_single_file is called on the given path
\* (scripts/process_audio.py 209-213): once, or, in a re-run, a second time
\* after the first call has returned.
SingleCall ==
    /\ pc = "start" /\ mode \in {"single", "rerun"}
    /\ supported_files' = (IF mode = "single" THEN listing ELSE listing \o listing)
    /\ file_idx' = 1
    /\ pc' = "loop"
    /\ UNCHANGED <<mode, listing, clean_temp_files, temp_audio_file, audio_file,
                   current_result, fs, results, successful_count, failed_count,
                   batch_results, stage_log, mainVars, ghostVars,
                   engineVars, cleanVars, transVars, pureVars>>

\* process_single_file, processor.py 131-151: validation of the input file,
\* then the output directory is made
ValidateInput ==
    /\ pc = "loop" /\ file_idx <= Len(supported_files)
    /\ temp_audio_file' = NoPath
    /\ audio_file' = InputPath(CurrentFile)
    /\ fs_before' = fs
    /\ unlink_failed' = FALSE
    /\ IF ~Exists(fs, InputPath(CurrentFile))
       THEN /\ current_result' = FailedResult(CurrentFile, "Input file not found", NoPath)
            /\ stage_log' = Append(stage_log, <<[stage |-> "validation", ok |-> FALSE]>>)
            /\ pc' = "finally"
            /\ UNCHANGED fs
       ELSE IF ~is_supported_audio_format(CurrentFile)
       THEN /\ current_result' = FailedResult(CurrentFile, "Unsupported file format", NoPath)
            /\ stage_log' = Append(stage_log, <<[stage |-> "validation", ok |-> FALSE]>>)
            /\ pc' = "finally"
            /\ UNCHANGED fs
       ELSE /\ stage_log' = Append(stage_log, <<[stage |-> "validation", ok |-> TRUE]>>)
            /\ pc' = "extract"
            /\ fs' = [fs EXCEPT ![OutputDir] = Directory]
            /\ UNCHANGED current_result
    /\ UNCHANGED <<mode, listing, supported_files, file_idx, clean_temp_files,
                   results, successful_count, failed_count, batch_results,
                   mainVars, writer, engineVars, cleanVars, transVars, pureVars>>

\* processor.py 155-160 and extract_audio 75-112: ffmpeg writes the
\* temporary waveform, or exits non-zero, having written none or part of it;
\* temp_audio_file is assigned only when extract_audio returns
ExtractAudio ==
    /\ pc = "extract"
    /\ CurrentFile.suffix \in VideoFormats
    /\ \E outcome \in {"extracted", "failed", "failed_partway"} :
         IF outcome = "extracted"
         THEN /\ fs' = [fs EXCEPT ![TempAudioPath] = Waveform(fs[InputPath(CurrentFile)])]
              /\ writer' = [writer EXCEPT ![TempAudioPath] = file_idx]
              /\ temp_audio_file' = TempAudioPath
              /\ audio_file' = TempAudioPath
              /\ stage_log' = Logged("extraction", TRUE)
              /\ pc' = "diarize"
              /\ UNCHANGED current_result
         ELSE /\ StageRaises("extraction", "Audio extraction failed")
              /\ IF outcome = "failed_partway"
                 THEN /\ fs' = [fs EXCEPT ![TempAudioPath] =
                                    PartOf(Waveform(fs[InputPath(CurrentFile)]))]
                      /\ writer' = [writer EXCEPT ![TempAudioPath] = file_idx]
                 ELSE UNCHANGED <<fs, writer>>
              /\ UNCHANGED <<temp_audio_file, audio_file>>
    /\ UNCHANGED <<mode, listing, supported_files, file_idx, clean_temp_files,
                   results, successful_count, failed_count, batch_results,
                   mainVars, fs_before, unlink_failed, engineVars, cleanVars, transVars, pureVars>>

\* processor.py 161-164: an audio format is used as it is
UseAudioDirectly ==
    /\ pc = "extract"
    /\ CurrentFile.suffix \notin VideoFormats
    /\ pc' = "diarize"
    /\ UNCHANGED <<mode, listing, supported_files, file_idx, clean_temp_files,
                   temp_audio_file, audio_file, current_result, fs, results,
                   successful_count, failed_count, batch_results, stage_log,
                   mainVars, ghostVars, engineVars, cleanVars, transVars, pureVars>>

\* How AudioDiarizer.process_file can end, diarizer.py 142-163:
\* get_audio_duration raises (150, 65-72) before the pipeline is called;
\* the pipeline is called (89) and raises, or returns and the sidecar cannot
\* be saved (157), or all goes well.  A pipeline that is None cannot be
\* called: the call at 89 raises and no engine has run.
DiarizeOutcomes ==
    IF init_outcome = "pipeline_none"
    THEN {"probe_failed", "not_callable"}
    ELSE {"probe_failed", "engine_raised", "save_failed", "ok"}

\* processor.py 166-168 and AudioDiarizer.process_file, diarizer.py 142-163
Diarize ==
    /\ pc = "diarize"
    /\ \E outcome \in DiarizeOutcomes :
         /\ engine_calls' = (IF outcome \in {"engine_raised", "save_failed", "ok"}
                             THEN InvokeEngine(engine_calls, file_idx)
                             ELSE engine_calls)
         /\ IF outcome = "ok"
            THEN /\ fs' = [fs EXCEPT ![DiarizationPath(CurrentFile)] = Sidecar(fs[audio_file])]
                 /\ writer' = [writer EXCEPT ![DiarizationPath(CurrentFile)] = file_idx]
                 /\ stage_log' = Logged("diarization", TRUE)
                 /\ pc' = "transcribe"
                 /\ UNCHANGED current_result
            ELSE /\ StageRaises("diarization", "Diarization processing failed")
                 /\ UNCHANGED <<fs, writer>>
    /\ UNCHANGED <<mode, listing, supported_files, file_idx, clean_temp_files,
                   temp_audio_file, audio_file, results, successful_count,
                   failed_count, batch_results, mainVars, fs_before, unlink_failed,
                   model_loads, cleanVars, transVars, pureVars>>

\* processor.py 170-174 and AudioTranscriber.transcribe_file, transcriber.py 163-225
Transcribe ==
    /\ pc = "transcribe"
    /\ \E ok \in BOOLEAN :
         IF ok
         THEN /\ fs' = [fs EXCEPT ![TranscriptionPath(CurrentFile)] =
                            RawTranscript(fs[audio_file], fs[DiarizationPath(CurrentFile)])]
              /\ writer' = [writer EXCEPT ![TranscriptionPath(CurrentFile)] = file_idx]
              /\ stage_log' = Logged("transcription", TRUE)
              /\ pc' = "clean"
              /\ UNCHANGED current_result
         ELSE /\ StageRaises("transcription", "Transcription processing failed")
              /\ UNCHANGED <<fs, writer>>
    /\ UNCHANGED <<mode, listing, supported_files, file_idx, clean_temp_files,
                   temp_audio_file, audio_file, results, successful_count,
                   failed_count, batch_results, mainVars, fs_before, unlink_failed,
                   engineVars, cleanVars, transVars, pureVars>>

\* processor.py 176-178 and TranscriptCleaner.clean_transcript_file, cleaner.py 68-139
Clean ==
    /\ pc = "clean"
    /\ \E ok \in BOOLEAN :
         IF ok
         THEN /\ fs' = [fs EXCEPT ![CleanedPath(CurrentFile)] =
                            CleanedTranscript(fs[TranscriptionPath(CurrentFile)])]
              /\ writer' = [writer EXCEPT ![CleanedPath(CurrentFile)] = file_idx]
              /\ stage_log' = Logged("cleaning", TRUE)
              /\ pc' = "collect"
              /\ UNCHANGED current_result
         ELSE /\ StageRaises("cleaning", "Transcript cleaning failed")
              /\ UNCHANGED <<fs, writer>>
    /\ UNCHANGED <<mode, listing, supported_files, file_idx, clean_temp_files,
                   temp_audio_file, audio_file, results, successful_count,
                   failed_count, batch_results, mainVars, fs_before, unlink_failed,
                   engineVars, cleanVars, transVars, pureVars>>

\* processor.py 180-204: the result; a failure while collecting the
\* statistics is recorded in it and changes nothing else
CollectResults ==
    /\ pc = "collect"
    /\ \E stats_failed \in BOOLEAN :
         current_result' = SuccessResult(CurrentFile, audio_file, stats_failed)
    /\ pc' = "finally"
    /\ UNCHANGED <<mode, listing, supported_files, file_idx, clean_temp_files,
                   temp_audio_file, audio_file, fs, results, successful_count,
                   failed_count, batch_results, stage_log, mainVars, ghostVars,
                   engineVars, cleanVars, transVars, pureVars>>

\* processor.py 218-225: the finally block removes the temporary waveform
\* when asked to and when temp_audio_file was assigned; an unlink that
\* raises is logged
RemoveTempFile ==
    IF clean_temp_files /\ temp_audio_file # NoPath /\ Exists(fs, temp_audio_file)
    THEN \E unlinked \in BOOLEAN :
           /\ fs' = IF unlinked THEN [fs EXCEPT ![temp_audio_file] = Absent] ELSE fs
           /\ unlink_failed' = ~unlinked
    ELSE UNCHANGED <<fs, unlink_failed>>

\* A mutant of the loop that stops at the first failed file.
NextFileStopsOnFailure(idx, result) ==
    IF result.success THEN idx + 1 ELSE Len(supported_files) + 1

\* for file_path in supported_files, processor.py 278: the next index
NextFile(idx, result) == idx + 1

\* A mutant that counts every result as a success.
CountsAllSuccessful(result, successful, failed) ==
    [successful |-> successful + 1, failed |-> failed]

\* processor.py 285-288 (scripts/process_audio.py 292-296): the counters
\* after a result
Count(result, successful, failed) ==
    IF result.success
    THEN [successful |-> successful + 1, failed |-> failed]
    ELSE [successful |-> successful, failed |-> failed + 1]

\* processor.py 218-225, then 283-288 (scripts/process_audio.py 292-296):
\* the finally block runs, process_single_file returns, and the loop
\* records the result and goes to the next file
FinishFile ==
    /\ pc = "finally"
    /\ RemoveTempFile
    /\ results' = Append(results, current_result)
    /\ IF mode \in {"directory", "script"}
       THEN /\ successful_count' = Count(current_result, successful_count, failed_count).successful
            /\ failed_count' = Count(current_result, successful_count, failed_count).failed
            /\ file_idx' = NextFile(file_idx, current_result)
            /\ pc' = "loop"
       ELSE /\ IF file_idx < Len(supported_files)
               THEN pc' = "loop" /\ file_idx' = file_idx + 1
               ELSE pc' = "done" /\ UNCHANGED file_idx
            /\ UNCHANGED <<successful_count, failed_count>>
    /\ failed_files' = (IF mode = "script" /\ ~current_result.success
                        THEN Append(failed_files, CurrentFile)
                        ELSE failed_files)
    /\ UNCHANGED <<mode, listing, supported_files, clean_temp_files, temp_audio_file,
                   audio_file, current_result, batch_results, stage_log,
                   init_outcome, exit_status, console, interrupted_at,
                   fs_before, writer, engineVars, cleanVars, transVars, pureVars>>

\* processor.py 262-271 and 299-309: process_directory returns its summary
FinishBatch ==
    /\ pc = "loop" /\ mode = "directory"
    /\ file_idx > Len(supported_files)
    /\ batch_results' =
         IF supported_files = <<>>
         THEN [total_files |-> 0, processed_files |-> 0,
               successful_files |-> 0, failed_files |-> 0, results |-> <<>>]
         ELSE [total_files      |-> Len(supported_files),
               processed_files  |-> Len(results),
               successful_files |-> successful_count,
               failed_files     |-> failed_count,
               results          |-> results]
    /\ pc' = "done"
    /\ UNCHANGED <<mode, listing, supported_files, file_idx, clean_temp_files,
                   temp_audio_file, audio_file, current_result, fs, results,
                   successful_count, failed_count, stage_log, mainVars, ghostVars,
                   engineVars, cleanVars, transVars, pureVars>>

\* scripts/process_audio.py 305-315 and 413-419: the final summary lists the
\* names of the failed files, and main exits with 0 when none failed
PrintSummary ==
    /\ pc = "loop" /\ mode = "script"
    /\ file_idx > Len(supported_files)
    /\ console' = console \o [i \in 1..Len(failed_files) |-> FailedFileLine(failed_files[i])]
    /\ exit_status' = (IF failed_count = 0 THEN <<0>> ELSE <<1>>)
    /\ pc' = "done"
    /\ UNCHANGED <<mode, listing, supported_files, file_idx, clean_temp_files,
                   temp_audio_file, audio_file, current_result, fs, results,
                   successful_count, failed_count, batch_results, stage_log,
                   init_outcome, failed_files, interrupted_at, ghostVars,
                   engineVars, cleanVars, transVars, pureVars>>

\* A KeyboardInterrupt while a batch is processed.  Inside
\* process_single_file the clause "except Exception" (processor.py 206) is
\* tried, then the finally block runs (218-225); the clauses of the loops
\* (processor.py 290, scripts/process_audio.py 298) are "except Exception"
\* too; main catches it at scripts/process_audio.py 405-407.
Interrupt ==
    /\ mode \in {"directory", "script"}
    /\ interrupted_at = <<>>
    /\ \/ pc = "loop" /\ file_idx <= Len(supported_files)
       \/ pc \in {"extract", "diarize", "transcribe", "clean", "collect", "finally"}
    /\ interrupted_at' = <<file_idx>>
    /\ IF pc \in {"extract", "diarize", "transcribe", "clean", "collect"}
          /\ Catches("Exception", "KeyboardInterrupt")
       THEN /\ current_result' = FailedResult(CurrentFile, "KeyboardInterrupt", temp_audio_file)
            /\ pc' = "finally"
            /\ UNCHANGED <<fs, unlink_failed, console, exit_status>>
       ELSE /\ IF pc = "loop" THEN UNCHANGED <<fs, unlink_failed>> ELSE RemoveTempFile
            /\ pc' = "interrupted"
            /\ IF mode = "script"
               THEN /\ console' = Append(console, InterruptedLine)
                    /\ exit_status' = <<1>>
               ELSE UNCHANGED <<console, exit_status>>
            /\ UNCHANGED current_result
    /\ UNCHANGED <<mode, listing, supported_files, file_idx, clean_temp_files,
                   temp_audio_file, audio_file, results, successful_count,
                   failed_count, batch_results, stage_log, init_outcome,
                   failed_files, fs_before, writer, engineVars, cleanVars, transVars, pureVars>>

Next ==
    \/ InitializeProcessor
    \/ GetSupportedFiles
    \/ EnumerateFiles
    \/ SingleCall
    \/ ValidateInput
    \/ ExtractAudio
    \/ UseAudioDirectly
    \/ Diarize
    \/ Transcribe
    \/ Clean
    \/ CollectResults
    \/ FinishFile
    \/ FinishBatch
    \/ PrintSummary
    \/ Interrupt

Spec == Init /\ [][Next]_vars

----------------------------------------------------------------------------
(* Properties of the Consolidator *)

\* The lines the parser accepts.
WellFormedLine(line) == parse_transcript_line(line).valid
WellFormedList(lines) == \A i \in 1..Len(lines) : WellFormedLine(lines[i])

SpeakerOf(line) == parse_transcript_line(line).speaker

\* C1: after clean_transcript_file has run on any list of raw lines, valid or
\* malformed, every line of its output has a speaker and no two adjacent
\* output lines have the same speaker.
C1_AdjacentSpeakersDiffer ==
    cpc # "input" =>
        /\ \A i \in 1..Len(cleaned_lines) : WellFormedLine(cleaned_lines[i])
        /\ \A i \in 1..(Len(cleaned_lines) - 1) :
              SpeakerOf(cleaned_lines[i]) # SpeakerOf(cleaned_lines[i + 1])

\* A run of two accepted same-speaker lines next to a rejected line was
\* consolidated into an output of at least two lines.
C1_Witness ==
    /\ cpc = "cleaned"
    /\ Len(cleaned_lines) >= 2
    /\ \E i \in 1..(Len(raw_lines) - 1) :
          /\ WellFormedLine(raw_lines[i]) /\ WellFormedLine(raw_lines[i + 1])
          /\ SpeakerOf(raw_lines[i]) = SpeakerOf(raw_lines[i + 1])
    /\ \E i \in 1..Len(raw_lines) : ~WellFormedLine(raw_lines[i])

\* C2: consolidation is idempotent on well-formed input: running
\* clean_transcript_file on its own output writes that output again.
C2_Idempotent ==
    (cpc = "recleaned" /\ WellFormedList(raw_lines)) => recleaned_lines = cleaned_lines

\* The second pass ran on an output of several lines that the first pass had
\* obtained by merging well-formed lines.
C2_Witness ==
    /\ cpc = "recleaned"
    /\ WellFormedList(raw_lines)
    /\ Len(cleaned_lines) >= 2
    /\ Len(cleaned_lines) < Len(raw_lines)

\* The maximal runs of a list v of parsed lines, stated without the loop:
\* a run starts at i when line i has no predecessor with the same speaker.
IsRunStart(v, i) == i = 1 \/ v[i].speaker # v[i - 1].speaker
RunStarts(v) == {i \in 1..Len(v) : IsRunStart(v, i)}
RunEnd(v, i) ==
    CHOOSE j \in i..Len(v) :
        /\ \A k \in (i + 1)..j : ~IsRunStart(v, k)
        /\ (j = Len(v) \/ IsRunStart(v, j + 1))
KthRunStart(v, k) ==
    CHOOSE i \in RunStarts(v) : Cardinality({h \in RunStarts(v) : h < i}) = k - 1
RunText(v, i) == join(<<SP>>, [m \in 1..(RunEnd(v, i) - i + 1) |-> v[i + m - 1].text])

ParsedLines(lines) == [i \in 1..Len(lines) |-> parse_transcript_line(lines[i])]

\* C3: for a list of well-formed lines the output has exactly one line per
\* maximal run of consecutive lines with the same speaker, in input order,
\* and the k-th output line carries the k-th run's speaker, the timestamp of
\* the run's first line and the run's texts joined by single spaces.
C3_OneLinePerRun ==
    (cpc = "cleaned" /\ WellFormedList(raw_lines)) =>
        LET v == ParsedLines(raw_lines)
        IN  /\ Len(cleaned_lines) = Cardinality(RunStarts(v))
            /\ \A k \in 1..Len(cleaned_lines) :
                  LET i == KthRunStart(v, k)
                      out == parse_transcript_line(cleaned_lines[k])
                  IN  /\ out.valid
                      /\ out.speaker = v[i].speaker
                      /\ out.timestamp = v[i].timestamp
                      /\ out.text = RunText(v, i)

\* Speakers [A, A, B, A] with different timestamps in the first run: three
\* output lines.
C3_Witness ==
    /\ cpc = "cleaned"
    /\ Len(raw_lines) = 4
    /\ WellFormedList(raw_lines)
    /\ [i \in 1..4 |-> SpeakerOf(raw_lines[i])] = <<(<<"A">>), (<<"A">>), (<<"B">>), (<<"A">>)>>
    /\ parse_transcript_line(raw_lines[1]).timestamp # parse_transcript_line(raw_lines[2]).timestamp
    /\ Len(cleaned_lines) = 3

\* A line that does not split into at least three " | "-delimited parts.
LacksDelimiters(line) == Len(split(line, DELIM)) < 3
KeepsDelimiters(line) == ~LacksDelimiters(line)

\* C4: a line that does not split into three parts, and any line the parser
\* rejects, is dropped and has no other effect: the output is the output for
\* the list with those lines removed.
C4_MalformedSkipped ==
    cpc = "cleaned" =>
        /\ cleaned_lines = clean_transcript_file(SelectSeq(raw_lines, KeepsDelimiters))
        /\ cleaned_lines = clean_transcript_file(SelectSeq(raw_lines, WellFormedLine))

\* A line without the delimiters stood between two accepted lines of the
\* same speaker, and between two accepted lines of different speakers.
C4_Witness ==
    /\ cpc = "cleaned"
    /\ \E i \in 2..(Len(raw_lines) - 1) :
          /\ LacksDelimiters(raw_lines[i])
          /\ WellFormedLine(raw_lines[i - 1]) /\ WellFormedLine(raw_lines[i + 1])
          /\ SpeakerOf(raw_lines[i - 1]) = SpeakerOf(raw_lines[i + 1])
          /\ Len(cleaned_lines) = Len(raw_lines) - 2

----------------------------------------------------------------------------
(* Properties of transcribe_file *)

\* The number of the line written by iteration i of the loop.
LineNo(i) == Cardinality({h \in 1..i : segment_log[h].wrote})

EngineRaisedOn(i) == segment_log[i].called /\ segment_log[i].outcome.raised
EngineReturnedOn(i) == segment_log[i].called /\ ~segment_log[i].outcome.raised

\* C5: when the engine raises on a segment, transcribe_file writes that
\* segment's line with the text [TRANSCRIPTION_ERROR], writes the other
\* segments' lines with the engine's trimmed text, and returns normally, so
\* that the cleaning stage runs and the file succeeds; with the engine
\* failing on segment 2 of 3 the raw transcript has 3 lines and line 2 holds
\* the sentinel.
C5_SegmentFailureIsolated ==
    /\ \A i \in 1..Len(segment_log) :
         LET segment == diarization_data[i]
         IN  /\ EngineRaisedOn(i) =>
                  /\ segment_log[i].wrote
                  /\ output_file[LineNo(i)] =
                       RawLine(segment.speaker, format_timestamp(segment.start), SENTINEL)
             /\ EngineReturnedOn(i) =>
                  /\ segment_log[i].wrote
                  /\ output_file[LineNo(i)] =
                       RawLine(segment.speaker, format_timestamp(segment.start),
                               strip(segment_log[i].outcome.text))
    /\ (tpc = "raised" \/ file_result = "failed") => segment_log = <<>>
    /\ (tpc = "done" /\ file_result # "failed") =>
         /\ file_result = "success"
         /\ transcript_cleaned = clean_transcript_file(output_file)
    /\ ( /\ tpc \in {"returned", "done"}
         /\ Len(segment_log) = 3
         /\ \A i \in 1..3 : segment_log[i].called
         /\ EngineRaisedOn(2) /\ EngineReturnedOn(1) /\ EngineReturnedOn(3) ) =>
         /\ Len(output_file) = 3
         /\ output_file[2] = RawLine(diarization_data[2].speaker,
                                     format_timestamp(diarization_data[2].start), SENTINEL)
         /\ parse_transcript_line(output_file[2]).text = SENTINEL
         /\ file_result # "failed"

\* The engine raised on segment 2 of 3 and the file completed.
C5_Witness ==
    /\ tpc = "done"
    /\ file_result = "success"
    /\ Len(diarization_data) = 3
    /\ Len(segment_log) = 3
    /\ \A i \in 1..3 : segment_log[i].called
    /\ EngineRaisedOn(2) /\ EngineReturnedOn(1) /\ EngineReturnedOn(3)
    /\ segment_log[1].outcome.text # <<>>
    /\ Len(output_file) = 3

\* C6: once transcribe_file has returned, the raw transcript has exactly one
\* line per processed segment, in sidecar order, the i-th line carrying the
\* i-th segment's speaker and formatted start.
C6_OneLinePerSegment ==
    tpc \in {"returned", "done"} /\ file_result # "failed" =>
        /\ Len(output_file) = total_segments
        /\ \A i \in 1..Len(output_file) :
             HasSegmentKeys(diarization_data[i]) =>
                 /\ parse_transcript_line(output_file[i]).speaker = diarization_data[i].speaker
                 /\ parse_transcript_line(output_file[i]).timestamp =
                        format_timestamp(diarization_data[i].start)

\* The segments the cap lets through, and those of them that have the keys
\* the loop reads.
CapOf(total) ==
    IF max_segments = <<>> THEN total
    ELSE IF max_segments[1] < total THEN max_segments[1] ELSE total
WithinCap == 1..CapOf(Len(diarization_data))
KeptWithinCap == {i \in WithinCap : HasSegmentKeys(diarization_data[i])}

\* C14: with a cap N the loop handles the first min(N, total) segments and
\* no other, the raw transcript holds their lines in the sidecar's order and
\* never more than N lines, and the file completes without an error (a file
\* fails only before the loop has started); with no cap every segment is
\* handled.  (An element without the keys has no
\* line; when all have them the transcript has min(N, total) lines.)
C14_SegmentCap ==
    /\ Len(segment_log) <= CapOf(Len(diarization_data))
    /\ max_segments # <<>> => Len(output_file) <= max_segments[1]
    /\ file_result = "failed" => segment_log = <<>>
    /\ (tpc \in {"returned", "done"} /\ file_result # "failed") =>
         /\ Len(segment_log) = CapOf(Len(diarization_data))
         /\ Len(output_file) = Cardinality(KeptWithinCap)
         /\ \A i \in KeptWithinCap :
              output_file[Cardinality({h \in KeptWithinCap : h <= i})] =
                  RawLine(diarization_data[i].speaker,
                          format_timestamp(diarization_data[i].start),
                          IF segment_log[i].outcome.raised THEN SENTINEL
                          ELSE strip(segment_log[i].outcome.text))
         /\ max_segments = <<>> => Len(segment_log) = Len(diarization_data)
         /\ tpc = "done" => file_result = "success"

\* A sidecar of three segments with the cap 2: two lines, the third segment
\* left out, and the file succeeded.
C14_Witness ==
    /\ tpc = "done" /\ file_result = "success"
    /\ max_segments = <<2>>
    /\ Len(diarization_data) = 3
    /\ \A i \in 1..3 : HasSegmentKeys(diarization_data[i])
    /\ diarization_data[3] # diarization_data[1] /\ diarization_data[3] # diarization_data[2]
    /\ Len(segment_log) = 2
    /\ Len(output_file) = 2

\* The sidecar is a JSON array whose elements each have start, end and speaker.
MatchesSchema ==
    /\ sidecar_kind = "list"
    /\ \A i \in 1..Len(diarization_data) : HasSegmentKeys(diarization_data[i])

\* C19: when the sidecar is not valid JSON or does not match the schema,
\* the transcription stage fails and the file ends failed.
C19_MalformedSidecarFails ==
    (tpc = "done" /\ ~MatchesSchema) => file_result = "failed"

----------------------------------------------------------------------------
(* Properties of the orchestrator *)

Succeeded == {i \in 1..Len(results) : results[i].success}
Failed == {i \in 1..Len(results) : ~results[i].success}

\* The last stage of file i's log.
LastStage(i) == stage_log[i][Len(stage_log[i])]

\* C7: in directory mode a file's failure does not end the batch: each
\* failed file gets a result with success False and its error message, the
\* loop is then at the next file, and when process_directory returns every
\* enumerated file has been processed once and has one result, in order.
C7_FailureDoesNotAbortBatch ==
    mode = "directory" =>
        /\ \A i \in Failed :
             /\ results[i].error # "None"
             /\ ~LastStage(i).ok
        /\ pc = "loop" => (Len(results) = file_idx - 1 /\ Len(stage_log) = Len(results))
        /\ pc = "done" =>
             /\ Len(results) = Len(supported_files)
             /\ Len(stage_log) = Len(supported_files)
             /\ \A i \in 1..Len(results) :
                  results[i].input_file = InputPath(supported_files[i])

\* A batch of three returned after its first two files had failed at
\* different stages and its third had succeeded.
C7_Witness ==
    /\ mode = "directory" /\ pc = "done"
    /\ Len(supported_files) = 3
    /\ ~results[1].success /\ ~results[2].success /\ results[3].success
    /\ results[1].error # results[2].error

\* What process_single_file leaves at a file's artifact paths when the file
\* is processed alone and succeeds.
AloneAudio(f) == IF f.suffix \in VideoFormats THEN Waveform(Media(f)) ELSE Media(f)
AloneSidecar(f) == Sidecar(AloneAudio(f))
AloneRaw(f) == RawTranscript(AloneAudio(f), AloneSidecar(f))
AloneCleaned(f) == CleanedTranscript(AloneRaw(f))

HoldsOwnArtifacts(f) ==
    /\ fs[DiarizationPath(f)] = AloneSidecar(f)
    /\ fs[TranscriptionPath(f)] = AloneRaw(f)
    /\ fs[CleanedPath(f)] = AloneCleaned(f)

\* C8: when the run has finished, the artifact paths of every file that
\* succeeded hold what processing that file alone produces.
C8_BatchIsolation ==
    pc = "done" => \A i \in Succeeded : HoldsOwnArtifacts(supported_files[i])

\* C9: successful + failed = number of results after every iteration; the
\* summary process_directory returns has total_files = successful_files +
\* failed_files = number of results = number of enumerated files, and
\* successful_files is the number of results with success True.
C9_CountsAddUp ==
    mode = "directory" =>
        /\ successful_count + failed_count = Len(results)
        /\ successful_count = Cardinality(Succeeded)
        /\ pc = "done" =>
             /\ batch_results.total_files = Len(supported_files)
             /\ batch_results.total_files =
                  batch_results.successful_files + batch_results.failed_files
             /\ batch_results.total_files = Len(batch_results.results)
             /\ batch_results.successful_files =
                  Cardinality({i \in 1..Len(batch_results.results) :
                                  batch_results.results[i].success})
             /\ batch_results.failed_files =
                  Cardinality({i \in 1..Len(batch_results.results) :
                                  ~batch_results.results[i].success})

\* Three files, the second failed: total 3, succeeded 2, failed 1.
C9_Witness ==
    /\ mode = "directory" /\ pc = "done"
    /\ Len(supported_files) = 3
    /\ results[1].success /\ ~results[2].success /\ results[3].success
    /\ batch_results.total_files = 3
    /\ batch_results.successful_files = 2
    /\ batch_results.failed_files = 1

\* C10: the stages of a file run in the order validation, extraction (for a
\* video format only), diarization, transcription, cleaning; a stage runs
\* only after every earlier one has succeeded, so that nothing runs after a
\* failure; a file that failed at a stage ends with success False, and a
\* file ends with success True only if all its stages succeeded.
C10_StageOrder ==
    /\ \A i \in 1..Len(stage_log) :
         LET log == stage_log[i]
             canon == StagesOf(supported_files[i])
         IN  /\ Len(log) <= Len(canon)
             /\ \A k \in 1..Len(log) : log[k].stage = canon[k]
             /\ \A k \in 1..(Len(log) - 1) : log[k].ok
             /\ i <= Len(results) =>
                  /\ results[i].success <=> (Len(log) = Len(canon) /\ LastStage(i).ok)
                  /\ ~results[i].success => ~LastStage(i).ok
    /\ Len(results) <= Len(stage_log)
    /\ (pc = "finally" /\ ~LastStage(Len(stage_log)).ok) => ~current_result.success
    /\ pc \in {"extract", "diarize", "transcribe", "clean", "collect"} =>
         \A k \in 1..Len(stage_log[file_idx]) : stage_log[file_idx][k].ok

\* A batch in which a video file went through all five stages and another
\* file stopped at a failed transcription.
C10_Witness ==
    /\ pc = "done"
    /\ \E i \in Succeeded : Len(stage_log[i]) = 5
    /\ \E i \in Failed : LastStage(i).stage = "transcription"

----------------------------------------------------------------------------
(* Properties of format_timestamp *)

\* The number a string of digits writes.
NumberOf(field) == ScanDigits(field, 1, 0, 0).val
AllDigits(field) == \A i \in 1..Len(field) : IsDigit(field[i])

\* C15: for every non-negative number of whole seconds s the string is
\* HH:MM:SS with HH = s div 3600 written with at least two digits and no
\* further leading zero, MM = (s mod 3600) div 60 and SS = s mod 60 written
\* with two digits; the hours are not reduced modulo 24; 0, 3599, 3600 and
\* 86399 give 00:00:00, 00:59:59, 01:00:00 and 23:59:59.
C15_TimestampFormat ==
    fpc = "formatted" /\ ts_seconds % 1000 = 0 =>
        LET s == ts_seconds \div 1000
            fields == split(ts_string, <<":">>)
        IN  /\ Len(fields) = 3
            /\ \A k \in 1..3 : AllDigits(fields[k])
            /\ Len(fields[1]) >= 2 /\ Len(fields[2]) = 2 /\ Len(fields[3]) = 2
            /\ Len(fields[1]) > 2 => fields[1][1] # "0"
            /\ NumberOf(fields[1]) = s \div 3600
            /\ NumberOf(fields[2]) = (s % 3600) \div 60
            /\ NumberOf(fields[3]) = s % 60
            /\ s >= 86400 => NumberOf(fields[1]) >= 24
            /\ s = 0 => ts_string = <<"0", "0", ":", "0", "0", ":", "0", "0">>
            /\ s = 3599 => ts_string = <<"0", "0", ":", "5", "9", ":", "5", "9">>
            /\ s = 3600 => ts_string = <<"0", "1", ":", "0", "0", ":", "0", "0">>
            /\ s = 86399 => ts_string = <<"2", "3", ":", "5", "9", ":", "5", "9">>

\* One second past a day and an hour and a minute: 25:01:01.
C15_Witness ==
    /\ fpc = "formatted"
    /\ ts_seconds = 90061000
    /\ ts_string = <<"2", "5", ":", "0", "1", ":", "0", "1">>

----------------------------------------------------------------------------
(* Properties of the sidecar *)

\* The segment a loaded dictionary stands for.
AsSegment(d) == [start |-> d[KeyStart], end |-> d[KeyEnd], speaker |-> d[KeySpeaker]]

\* C16: the file save_diarization_to_file wrote is read back by
\* load_diarization_from_file as one dictionary per track the engine
\* yielded, in the engine's order, each with exactly the keys start, end and
\* speaker and the track's values.
C16_SidecarRoundTrip ==
    spc = "loaded" =>
        /\ Len(loaded_data) = Len(tracks)
        /\ \A i \in 1..Len(tracks) :
             /\ DOMAIN loaded_data[i] = {KeyStart, KeyEnd, KeySpeaker}
             /\ AsSegment(loaded_data[i]) =
                  [start   |-> tracks[i].segment.start,
                   end     |-> tracks[i].segment.end,
                   speaker |-> tracks[i].speaker]

\* Three tracks that are not in the order of their starts, one of them with
\* a label that json escapes, were saved and read back.
C16_Witness ==
    /\ spc = "loaded"
    /\ Len(tracks) = 3 /\ Len(loaded_data) = 3
    /\ tracks[1].segment.start > tracks[2].segment.start
    /\ \E i \in 1..3 : QUOTE \in {tracks[i].speaker[k] : k \in 1..Len(tracks[i].speaker)}
    /\ \E i \in 1..3 : tracks[i].segment.end = 3600250

----------------------------------------------------------------------------
(* Properties of process_single_file and of the run *)

\* The input file is missing, or its suffix is not a supported one.
Invalid(f) == f \notin ExistingFiles \/ f.suffix \notin SupportedFormats

\* process_single_file has returned and nothing has happened since.
JustReturned ==
    /\ pc \in {"loop", "done"}
    /\ Len(results) >= 1
    /\ Len(stage_log) = Len(results)

\* C11: for a missing input file or an unsupported suffix the only stage is
\* the failed validation, the result has success False and no artifact
\* path, and the call leaves the file system as it found it: no output
\* directory, temporary waveform, sidecar, raw or consolidated transcript is
\* created.
C11_InvalidInputStopsEarly ==
    /\ \A i \in 1..Len(stage_log) :
         Invalid(supported_files[i]) =>
             /\ stage_log[i] = <<[stage |-> "validation", ok |-> FALSE]>>
             /\ i <= Len(results) =>
                  /\ ~results[i].success
                  /\ results[i].error \in {"Input file not found", "Unsupported file format"}
                  /\ results[i].audio_file = NoPath
                  /\ results[i].diarization_file = NoPath
                  /\ results[i].transcription_file = NoPath
                  /\ results[i].cleaned_file = NoPath
    /\ ( /\ Len(stage_log) >= 1
         /\ Invalid(supported_files[Len(stage_log)])
         /\ pc = "finally" \/ JustReturned ) =>
             fs = fs_before
    /\ ( /\ mode \in {"single", "rerun"}
         /\ Invalid(listing[1]) ) =>
             /\ fs = InitialFs
             /\ \A p \in Paths : writer[p] = 0

\* A call on a path that does not exist has returned.
C11_Witness ==
    /\ mode = "single" /\ pc = "done"
    /\ listing = <<FileD3>>
    /\ Len(results) = 1 /\ ~results[1].success
    /\ results[1].error = "Input file not found"
    /\ ~Exists(fs, OutputDir)

\* C12: with clean_temp_files=True, when process_single_file has returned
\* (success, or a failure at extraction or later) the temporary waveform
\* written for that file is gone, unless the unlink itself raised; with
\* clean_temp_files=False the waveform extracted for the file is in place.
C12_TempFileRemoved ==
    JustReturned =>
        /\ ( /\ clean_temp_files
             /\ ~unlink_failed
             /\ writer[TempAudioPath] = Len(results) ) =>
                 ~Exists(fs, TempAudioPath)
        /\ ( /\ ~clean_temp_files
             /\ \E k \in 1..Len(stage_log[Len(results)]) :
                    stage_log[Len(results)][k] = [stage |-> "extraction", ok |-> TRUE] ) =>
                 fs[TempAudioPath] = Waveform(Media(supported_files[Len(results)]))

\* The output paths of a stem.
ArtifactPaths(f) == {DiarizationPath(f), TranscriptionPath(f), CleanedPath(f)}

\* C13: after the same input has been processed a second time, whatever the
\* outcome of the second run, every artifact present at the paths of its
\* stem was written by the second run.
C13_RerunLeavesNothingStale ==
    (mode = "rerun" /\ pc = "done") =>
        \A p \in ArtifactPaths(listing[1]) : Exists(fs, p) => writer[p] = 2

\* C17: when the script's batch has ended, the summary has, for every failed
\* file, a line with the file's name and its error string.
C17_SummaryNamesStageAndError ==
    (mode = "script" /\ pc = "done") =>
        \A i \in Failed :
            \E n \in 1..Len(console) :
                /\ InListing(console[n], supported_files[i].stem)
                /\ InListing(console[n], results[i].error)

\* The engines could not be initialised.
InitFailed == init_outcome \in {"diarizer_raised", "transcriber_raised", "pipeline_none"}

\* C18: when the diarization or the speech-to-text engine cannot be
\* initialised the run ends with status 1 and the message of main before any
\* file's pipeline has started: no stage has run, no file has a result and
\* the file system is untouched.
C18_InitFailureIsFatal ==
    InitFailed =>
        /\ pc = "exited"
        /\ exit_status = <<1>>
        /\ InListing(console, InitFailedLine)
        /\ stage_log = <<>>
        /\ results = <<>>
        /\ fs = InitialFs

\* C20: once a KeyboardInterrupt has arrived at file i, the run is over: the
\* file has no result (the interrupt is not turned into a failed result), no
\* later file has been started, and the script has printed the interrupt
\* message and exited with status 1 without a summary.
C20_InterruptAbortsRun ==
    interrupted_at # <<>> =>
        /\ pc = "interrupted"
        /\ file_idx = interrupted_at[1]
        /\ Len(results) = interrupted_at[1] - 1
        /\ \A i \in 1..Len(results) : results[i].error # "KeyboardInterrupt"
        /\ Len(stage_log) <= interrupted_at[1]
        /\ batch_results = NoResult
        /\ mode = "script" =>
             /\ exit_status = <<1>>
             /\ console[Len(console)] = InterruptedLine
             /\ \A n \in 1..Len(console) : Head(console[n]) # "failed file"

\* The interrupt arrived while the second of three files was being
\* transcribed, after the first had failed.
C20_Witness ==
    /\ mode = "script" /\ pc = "interrupted"
    /\ interrupted_at = <<2>>
    /\ Len(supported_files) = 3
    /\ Len(results) = 1 /\ ~results[1].success
    /\ Len(stage_log) = 2
    /\ LastStage(2) = [stage |-> "diarization", ok |-> TRUE]
    /\ exit_status = <<1>>

----------------------------------------------------------------------------
(* Delimiters inside the text, and conservation of text *)

\* Texts that contain the delimiter, at the start, in the middle, at the end, twice.
PipedTexts ==
    { <<"x", SP, BAR, SP, "y">>,
      <<BAR, SP, "y">>,
      <<"y", SP, BAR>>,
      <<"x", SP, BAR, SP, "y", SP, BAR, SP, "z">>,
      <<"x", SP, BAR, SP, BAR, SP, "y">> }

HasDelimiter(text) == Len(split(text, DELIM)) > 1

\* x is one of the pieces that were joined with single spaces into y.
IsPieceOf(x, y) ==
    \E k \in 1..(Len(y) - Len(x) + 1) :
        /\ SubSeq(y, k, k + Len(x) - 1) = x
        /\ (k = 1 \/ y[k - 1] = SP)
        /\ (k + Len(x) - 1 = Len(y) \/ y[k + Len(x)] = SP)

\* C22: only the first two delimiters of a line are structural.  A line built
\* from speaker s, timestamp t and a text x that contains " | " parses to
\* (s, t, x), and the Consolidator writes the text of such a line unchanged
\* into the output line of its run.
C22_PipesInText ==
    /\ \A s \in {<<"A">>, <<"B">>} : \A t \in {<<"0">>, <<"1">>} : \A x \in PipedTexts :
          parse_transcript_line(RawLine(s, t, x)) =
              [valid |-> TRUE, speaker |-> s, timestamp |-> t, text |-> x]
    /\ cpc # "input" =>
          \A i \in 1..Len(raw_lines) :
              LET p == parse_transcript_line(raw_lines[i])
              IN  (p.valid /\ HasDelimiter(p.text)) =>
                      \E j \in 1..Len(cleaned_lines) :
                          LET q == parse_transcript_line(cleaned_lines[j])
                          IN  /\ q.valid
                              /\ q.speaker = p.speaker
                              /\ IsPieceOf(p.text, q.text)

\* A line whose text holds a delimiter was merged into the run of the line
\* before it.
C22_Witness ==
    /\ cpc = "cleaned"
    /\ Len(raw_lines) = 2
    /\ raw_lines[1] = RawLine(<<"B">>, <<"0">>, <<"x">>)
    /\ raw_lines[2] = RawLine(<<"B">>, <<"1">>, <<"x", SP, BAR, SP, "y">>)
    /\ cleaned_lines = << RawLine(<<"B">>, <<"0">>, <<"x", SP, "x", SP, BAR, SP, "y">>) >>

ValidOf(parsed) == SelectSeq(parsed, LAMBDA r : r.valid)
TextsJoined(parsed) == join(<<SP>>, [i \in 1..Len(parsed) |-> parsed[i].text])
NoAdjacentSameSpeaker(parsed) ==
    \A i \in 1..(Len(parsed) - 1) : parsed[i].speaker # parsed[i + 1].speaker

\* What C29 asks of an output for the parsed lines of its input.
ConservesText(vin, vout, out) ==
    /\ \A i \in 1..Len(vout) : vout[i].valid
    /\ TextsJoined(vout) = TextsJoined(vin)
    /\ Len(out) <= Len(vin)
    /\ (Len(out) = Len(vin)) <=> NoAdjacentSameSpeaker(vin)
    /\ vin = <<>> => out = <<>>

LegacyParsedLines(lines) == [i \in 1..Len(lines) |-> LegacyParse(lines[i])]

\* C29: consolidation neither loses, duplicates nor reorders text.  The texts
\* of the output lines joined with single spaces are the texts of the valid
\* input lines joined with single spaces; the output has at most as many
\* lines as there are valid input lines, and as many exactly when no two
\* consecutive valid lines share a speaker; no valid line, no output line.
\* The same holds of clean.py under its own reading of a line.
C29_TextConserved ==
    /\ cpc # "input" =>
          ConservesText(ValidOf(ParsedLines(raw_lines)),
                        ParsedLines(cleaned_lines), cleaned_lines)
    /\ cpc = "legacy" =>
          ConservesText(ValidOf(LegacyParsedLines(raw_lines)),
                        LegacyParsedLines(legacy_lines), legacy_lines)

\* Four lines, two rejected, two of one speaker merged; clean.py, which does
\* not strip the fields, has read the padded speaker as another speaker.
C29_Witness ==
    /\ cpc = "legacy"
    /\ Len(raw_lines) = 4
    /\ Len(ValidOf(ParsedLines(raw_lines))) = 2
    /\ Len(cleaned_lines) = 1
    /\ Len(legacy_lines) = 2

----------------------------------------------------------------------------
(* Order of a batch, pass-through, results and the disk *)

\* The batch has been enumerated.
Enumerated == mode \in {"directory", "script"} /\ pc \in {"loop", "extract", "diarize",
                  "transcribe", "clean", "collect", "finally", "done", "interrupted"}

\* File i's pipeline has reached Completed or Failed.
PipelineEnded(i) ==
    \/ ~LastStage(i).ok
    \/ LastStage(i) = [stage |-> "cleaning", ok |-> TRUE]

\* C21: directory mode processes the supported files in the sorted order of
\* their paths whatever the order of the listing, the results are in that
\* order, and a file's pipeline starts only after the pipeline of the file
\* before it has ended.
C21_SortedSequential ==
    Enumerated =>
        /\ supported_files = sorted(supported_files)
        /\ \A i \in 1..Len(results) :
             results[i].input_file = InputPath(sorted(supported_files)[i])
        /\ \A i \in 1..(Len(stage_log) - 1) :
             /\ PipelineEnded(i)
             /\ i <= Len(results)

\* The supported suffixes that are not video containers.
AudioSuffixes == {".wav", ".m4a", ".mp3", ".ogg"}

HasStage(i, stage) == \E k \in 1..Len(stage_log[i]) : stage_log[i][k].stage = stage

\* C25: for a supported input that is not a video container there is no
\* extraction stage and no temporary artifact: temp_audio_file stays None,
\* the stages read the input path, the result names the input as its audio
\* and the temporary path is as the call found it, also after the cleanup;
\* and no call changes an input file.
C25_PassThrough ==
    /\ \A i \in 1..Len(stage_log) :
         LET f == supported_files[i]
         IN  (f \in ExistingFiles /\ f.suffix \in AudioSuffixes) =>
                 /\ ~HasStage(i, "extraction")
                 /\ i <= Len(results) =>
                      results[i].audio_file =
                          (IF results[i].success THEN InputPath(f) ELSE NoPath)
                 /\ i = Len(stage_log) =>
                      /\ temp_audio_file = NoPath
                      /\ audio_file = InputPath(f)
                      /\ fs[TempAudioPath] = fs_before[TempAudioPath]
                      /\ writer[DiarizationPath(f)] = i =>
                           fs[DiarizationPath(f)] = Sidecar(fs[InputPath(f)])
    /\ \A f \in InputFiles : fs[InputPath(f)] = InitialFs[InputPath(f)]

\* b.mp4 failed partway through its extraction and left a part of its
\* waveform; a.mp3 was then processed with clean_temp_files=True and the
\* temporary path is as it was.
C25_Witness ==
    /\ mode = "directory" /\ pc = "done"
    /\ clean_temp_files
    /\ supported_files = <<FileB4, FileA3>>
    /\ ~results[1].success /\ results[2].success
    /\ results[2].audio_file = InputPath(FileA3)
    /\ Exists(fs, TempAudioPath)

\* The text transcribe_file wrote for iteration i.
WrittenText(i) == transcribe_audio_segment(segment_log[i].outcome)

\* C27: every line transcribe_file writes parses back, with the
\* Consolidator's parser, to the speaker, timestamp and text it was written
\* with, and the consolidated transcript has the text of every raw line.
C27_LinesParseBack ==
    /\ \A i \in 1..Len(segment_log) :
         segment_log[i].wrote =>
             parse_transcript_line(output_file[LineNo(i)]) =
                 [valid     |-> TRUE,
                  speaker   |-> diarization_data[i].speaker,
                  timestamp |-> format_timestamp(diarization_data[i].start),
                  text      |-> WrittenText(i)]
    /\ file_result = "success" =>
         Len(ValidOf(ParsedLines(output_file))) = Len(output_file)

\* The keys of the dictionary process_single_file returns.
ResultKeys == {"input_file", "success", "error", "audio_file", "diarization_file",
               "transcription_file", "cleaned_file", "stats_error"}

\* C28: every failure of validation or of a stage is a result returned by
\* process_single_file, with success False and an error string; no result
\* is the one the loop's exception handler builds, and the failures are
\* counted through the results' success.
C28_FailuresAreReturned ==
    /\ \A i \in 1..Len(results) :
         /\ DOMAIN results[i] = ResultKeys
         /\ results[i].success <=> LastStage(i).ok
         /\ ~results[i].success => results[i].error # "None"
    /\ (mode \in {"directory", "script"} /\ pc \in {"loop", "done"}) =>
         /\ failed_count = Cardinality(Failed)
         /\ successful_count = Cardinality(Succeeded)

\* Three files failed, at extraction, at diarization and at cleaning.
C28_Witness ==
    /\ mode = "directory" /\ pc = "done"
    /\ Len(results) = 3
    /\ {results[i].error : i \in 1..3} =
           {"Audio extraction failed", "Diarization processing failed",
            "Transcript cleaning failed"}
    /\ failed_count = 3

\* The paths a result names.
NamedPaths(r) ==
    {r.audio_file, r.diarization_file, r.transcription_file, r.cleaned_file} \ {NoPath}

\* C30: when process_single_file has returned, a result with success True
\* has no error and its sidecar, raw transcript and consolidated transcript
\* exist; a result with success False has an error and names no path that
\* does not exist; a failure of the statistics leaves success True.
C30_ResultMatchesDisk ==
    JustReturned =>
        LET r == results[Len(results)]
        IN  /\ r.success =>
                 /\ r.error = "None"
                 /\ \A p \in {r.diarization_file, r.transcription_file, r.cleaned_file} :
                        p # NoPath /\ Exists(fs, p)
            /\ ~r.success =>
                 /\ r.error # "None"
                 /\ \A p \in NamedPaths(r) : Exists(fs, p)
            /\ r.stats_error => r.success

----------------------------------------------------------------------------
(* The raw transcript on disk *)

IsPrefix(p, q) == Len(p) <= Len(q) /\ SubSeq(q, 1, Len(p)) = p

\* transcribe_file is between its open and its return.
InTranscribeFile == tpc = "loop"

\* C26: at every point during transcribe_file the file holds the lines of
\* the segments processed so far, in segment order, and when a
\* KeyboardInterrupt cuts the loop short after k segments the lines written
\* for them remain in the file.
C26_WrittenIncrementally ==
    /\ InTranscribeFile => disk_file = output_file
    /\ tpc = "interrupted" =>
         /\ disk_file = output_file
         /\ Len(disk_file) = LineNo(Len(segment_log))

----------------------------------------------------------------------------
(* Model loading and engine invocation *)

DiarizationEnded(i) == HasStage(i, "diarization")
DiarizationSucceeded(i) ==
    \E k \in 1..Len(stage_log[i]) : stage_log[i][k] = [stage |-> "diarization", ok |-> TRUE]

LoadedAtMostOnce ==
    /\ model_loads.diarizer <= 1
    /\ model_loads.transcriber <= 1
    /\ stage_log # <<>> => (model_loads.diarizer = 1 /\ model_loads.transcriber = 1)

\* C24 as stated: each model is loaded at most once, before the first file,
\* and every call of process_single_file whose diarization stage has run has
\* called the pipeline exactly once.
C24_EngineOncePerFile ==
    /\ LoadedAtMostOnce
    /\ \A i \in 1..Len(stage_log) :
         IF DiarizationEnded(i)
         THEN CallsIn(engine_calls, i) = 1
         ELSE CallsIn(engine_calls, i) = 0

\* C24, amended: each model is loaded at most once, before the first file,
\* and every call of process_single_file calls the pipeline at most once:
\* exactly once when its diarization stage succeeded, not at all when the
\* stage has not run.
C24_EngineAtMostOncePerFile ==
    /\ LoadedAtMostOnce
    /\ \A i \in 1..Len(stage_log) :
         /\ CallsIn(engine_calls, i) <= 1
         /\ DiarizationSucceeded(i) => CallsIn(engine_calls, i) = 1
         /\ ~DiarizationEnded(i) => CallsIn(engine_calls, i) = 0

\* A script run of three files: the pipeline ran once for each, raised on
\* the second, and the models were loaded once.
C24_Witness ==
    /\ mode = "script" /\ pc = "done"
    /\ Len(results) = 3
    /\ engine_calls = <<1, 1, 1>>
    /\ results[1].success /\ ~results[2].success /\ results[3].success
    /\ model_loads = [diarizer |-> 1, transcriber |-> 1]

----------------------------------------------------------------------------
(* The temporary waveform of concurrent calls *)

\* The audio of call c's own input.
OwnAudio(c) ==
    IF run_file[c].suffix \in VideoFormats
    THEN Waveform(Media(run_file[c]))
    ELSE Media(run_file[c])

\* C23: the temporary waveforms of two calls on different inputs are apart:
\* no call diarizes or transcribes audio that is not its own input's, and
\* from its extraction to its own cleanup a call's waveform is in place,
\* neither overwritten nor deleted by the other call.
C23_TempNamespaced ==
    \A c \in DOMAIN runs :
        /\ runs[c].diarized \in {Absent, OwnAudio(c)}
        /\ runs[c].transcribed \in {Absent, OwnAudio(c)}
        /\ (runs[c].temp_audio_file # NoPath /\ runs[c].pc \in {"diarize", "transcribe", "finally"})
               => shared_temp = OwnAudio(c)

============================================================================
